---------------------------- MODULE Spec2Model ----------------------------
(***************************************************************************)
(* A state-machine model of the cecdesk core engine (rust-core/src).       *)
(*                                                                         *)
(* Each manager of the engine is modelled by its tables and by one action  *)
(* per public operation.  Time is a clock `now` in seconds that advances   *)
(* by the steps each specification names; Instant::now() and               *)
(* Instant::elapsed() read that clock.  Random identifiers (UUIDs, key     *)
(* bytes from OsRng) are drawn as fresh numbers.                           *)
(***************************************************************************)
EXTENDS Integers, Sequences, FiniteSets, TLC

(***************************************************************************)
(* Bounds of the model.                                                    *)
(***************************************************************************)
MaxSessions == 1
MaxHistory == 1
MaxTicks == 1
MaxEvents == 3
MaxPermissionRequests == 2
MaxPermissionTicks == 2
MaxKeyTicks == 2
MaxReplayTicks == 2
MaxReplaySessions == 1
MaxKeySessions == 2
MaxEnvelopes == 2
MaxCipherTasks == 1
MaxKeys == 3
MaxPlain == 1
MaxRotationInterval == 0
MaxGrace == 1
MaxNonces == 2
MaxBruteTicks == 2
MaxIdentifiers == 1
MaxAttempts == 2
MaxLockout == 2
MaxWindow == 2
MaxCodes == 1
MaxProcs == 2
MaxRegistrations == 1
MaxAccessTicks == 1
MaxReRegistrations == 2
MaxRequests == 2
MaxRemoteDevices == 1
MaxAuthTicks == 1
MaxConnections == 2
MaxTargets == 1
MaxSigEvents == 3
MaxSigTicks == 1
MaxReceived == 2
MaxSent == 1
MaxRtcConnections == 3
MaxAddedServers == 2
MaxRtt == 201
MaxLossTenths == 51
MaxSamplers == 1
MaxSamples == 62
MaxQualitySamples == 3
MaxCaptureLoops == 1
MaxLoopIterations == 1
MaxFrameId == 1
MaxBuffers == 2
MaxDropped == 2
MaxPerfTicks == 1
MaxFingerprint == 1

SessionIds == 1..MaxSessions

VARIABLES
    now,                \* the clock read by Instant::now() / Utc::now()
    ticks,              \* number of clock advances so far
    active_sessions,    \* SessionManager.active_sessions
    session_history,    \* SessionManager.session_history
    next_session_id,    \* the next fresh Uuid::new_v4() of Session::new
    sess_call,          \* the last SessionManager call and its outcome
    events,             \* the events the subscribers have observed, in order
    changes,            \* how many status changes the session table has had
    sess_pc,            \* where each task stands in a SessionManager call
    sess_arg,           \* the call each task is in the middle of
    permission_requests,    \* SessionManager.pending_requests
    next_permission_id, \* the next fresh Uuid of PermissionRequest::new
    config,             \* SecurityManager.config
    key_rotation_config,    \* SecurityManager.key_rotation_config
    session_keys,       \* SecurityManager.session_keys
    old_session_keys,   \* SecurityManager.old_session_keys
    replay_detection,   \* SecurityManager.replay_detection
    next_key,           \* the next fresh 32 bytes of OsRng
    envelopes,          \* the EncryptedData values produced so far
    sec_call,           \* the SecurityManager call that led to this state
    threat_detection_config,    \* SecurityManager.threat_detection_config
    first_presented,    \* when each nonce was first presented for a session
    failed_attempts,    \* SecurityManager.failed_attempts
    attempt_log,        \* the counted attempts of each identifier since its
                        \* last lockout or clearing
    locked_at,          \* when each identifier's lockout was installed
    device_id,          \* AccessControlManager.device_id
    device_registration,    \* AccessControlManager.device_registration
    next_device_id,     \* the next fresh Uuid of generate_device_id
    access_codes,       \* AccessControlManager.access_codes
    codes_lock,         \* the task holding the write lock of access_codes
    use_pc,             \* where each task stands in use_access_code
    use_arg,            \* the code each task passed to use_access_code
    granted,            \* per code record: how many uses returned Some
    acc_call,           \* the AccessControlManager call that led here
    pending_requests,   \* AccessControlManager.pending_requests
    next_request_id,    \* the next fresh Uuid of handle_connection_request
    authorized_devices, \* AccessControlManager.authorized_devices
    requests_lock,      \* the task holding the write lock of pending_requests
    resp_pc,            \* where each task stands in respond_to_request
    resp_arg,           \* what each task passed to respond_to_request
    answered,           \* per request id: how many responses succeeded
    sec_pc,             \* where each task stands in a SecurityManager call
    sec_arg,             \* the arguments and locals of that call
    sig_device_id, \* SignalingClient.device_id
    sig_connected, \* SignalingClient.connected
    ws_sender, \* SignalingClient.ws_sender: the connection whose queue it feeds
    sig_conns, \* per connect(): its send loop, receive loop and outbound queue
    next_conn, \* the number of the next connect()
    sig_events, \* the SignalingEvents sent to the listeners, in order
    registered_devices, \* SignalingClient.registered_devices
    metrics, \* SignalingClient.metrics
    pending_exchanges, \* SignalingClient.pending_exchanges
    sig_call, \* the last SignalingClient call or loop step and its outcome
    connections, \* WebRTCEngine.connections: the state of each stored connection
    next_connection_id, \* the next connection id create_peer_connection hands out
    rtc_call, \* the last WebRTCEngine call and its outcome
    preferred_protocol, \* NetworkManager.preferred_protocol
    ipv6_available, \* NetworkManager.ipv6_available
    ipv4_available, \* NetworkManager.ipv4_available
    stun_servers, \* the number of configured STUN servers
    turn_servers, \* the number of configured TURN servers
    net_call, \* the last NetworkManager call and its outcome
    is_monitoring, \* NetworkManager.is_monitoring
    starting, \* the start_monitoring calls between their read and their write of is_monitoring
    samplers, \* the sampler loops spawned by start_monitoring: position and locals
    iterations, \* the number of sampler iterations begun
    current_stats, \* NetworkManager.current_stats
    stats_history, \* NetworkManager.stats_history, each sample with its production number
    produced, \* the number of samples pushed so far
    net_emitted, \* the NetworkEvents sent by the last sampler iteration
    quality_in, \* the stats handed to calculate_quality
    quality_out, \* the quality calculate_quality returned
    capture_options, \* ScreenCapturer.capture_options (frame_rate, bitrate)
    adaptive_config, \* ScreenCapturer.adaptive_config
    is_capturing, \* ScreenCapturer.is_capturing
    capture_loops, \* the capture loops spawned by start_capture: position
    frame_sender, \* ScreenCapturer.frame_sender: the loop whose channel it holds
    frame_counter, \* ScreenCapturer.frame_counter
    frames_begun, \* the number of capture iterations begun
    cap_call, \* the last ScreenCapturer call or loop step
    frame_buffers, \* FrameBufferManager.buffers, oldest first
    total_bytes, \* FrameBufferManager.total_bytes
    dropped_frames, \* FrameBufferManager.dropped_frames
    max_buffers, \* FrameBufferManager.max_buffers
    event_queue, \* InputOptimizer.event_queue, front first
    max_queue_size, \* InputOptimizer.max_queue_size
    last_batch_time, \* InputOptimizer.last_batch_time
    perf_call, \* the last FrameBufferManager or InputOptimizer call and what it returned
    trusted_certificates, \* SecurityManager.trusted_certificates
    revoked_certificates, \* SecurityManager.revoked_certificates
    device_certificate, \* the fingerprint of SecurityManager.device_certificate
    cert_pc, \* the certificate calls between two of their lock acquisitions
    cert_call \* the last certificate call and what it returned

clockVars == <<now, ticks>>
sessVars == <<active_sessions, session_history, next_session_id, sess_call,
              events, changes, sess_pc, sess_arg, permission_requests,
              next_permission_id>>
keyVars == <<config, key_rotation_config, session_keys, old_session_keys,
             next_key, envelopes, sec_call>>
replayVars == <<replay_detection, threat_detection_config, first_presented>>
bruteVars == <<failed_attempts, attempt_log, locked_at>>
accessVars == <<device_id, device_registration, next_device_id, access_codes,
                codes_lock, use_pc, use_arg, granted, acc_call>>
authVars == <<pending_requests, next_request_id, authorized_devices,
              requests_lock, resp_pc, resp_arg, answered>>
secTaskVars == <<sec_pc, sec_arg>>
sigVars == <<sig_device_id, sig_connected, ws_sender, sig_conns, next_conn, sig_events, registered_devices, metrics, pending_exchanges, sig_call>>
rtcVars == <<connections, next_connection_id, rtc_call>>
netVars == <<preferred_protocol, ipv6_available, ipv4_available, stun_servers, turn_servers, net_call, is_monitoring, starting, samplers, iterations, current_stats, stats_history, produced, net_emitted, quality_in, quality_out>>
capVars == <<capture_options, adaptive_config, is_capturing, capture_loops, frame_sender, frame_counter, frames_begun, cap_call>>
perfVars == <<frame_buffers, total_bytes, dropped_frames, max_buffers, event_queue, max_queue_size, last_batch_time, perf_call>>
certVars == <<trusted_certificates, revoked_certificates, device_certificate, cert_pc, cert_call>>
vars == <<now, ticks, active_sessions, session_history, next_session_id,
          sess_call, events, changes, sess_pc, sess_arg, permission_requests,
          next_permission_id, config, key_rotation_config, session_keys,
          old_session_keys, replay_detection, next_key, envelopes, sec_call,
          threat_detection_config, first_presented, failed_attempts,
          attempt_log, locked_at, device_id, device_registration,
          next_device_id, access_codes, codes_lock, use_pc, use_arg, granted,
          acc_call, pending_requests, next_request_id, authorized_devices,
          requests_lock, resp_pc, resp_arg, answered, sec_pc, sec_arg, sig_device_id, sig_connected, ws_sender, sig_conns, next_conn, sig_events, registered_devices, metrics, pending_exchanges, sig_call, connections, next_connection_id, rtc_call, preferred_protocol, ipv6_available, ipv4_available, stun_servers, turn_servers, net_call, is_monitoring, starting, samplers, iterations, current_stats, stats_history, produced, net_emitted, quality_in, quality_out, capture_options, adaptive_config, is_capturing, capture_loops, frame_sender, frame_counter, frames_begun, cap_call, frame_buffers, total_bytes, dropped_frames, max_buffers, event_queue, max_queue_size, last_batch_time, perf_call, trusted_certificates, revoked_certificates, device_certificate, cert_pc, cert_call>>

(***************************************************************************)
(* The clock.                                                              *)
(***************************************************************************)
Tick(steps, limit) ==
    /\ ticks < limit
    /\ \E d \in steps : now' = now + d
    /\ ticks' = ticks + 1

InitClock ==
    /\ now = 0
    /\ ticks = 0

(***************************************************************************)
(* Session Manager (session_manager.rs).                                   *)
(***************************************************************************)
NoSession == "none"
SessionStatus == {"Pending", "Active", "Paused", "Ended", "Failed"}
EndReason == {"UserRequested", "RemoteDisconnect"}
history_retention_days == 30
SecsPerDay == 86400

NoSessCall == [op |-> "none", sid |-> 0, ok |-> TRUE]
SessCall(op, sid, ok) == [op |-> op, sid |-> sid, ok |-> ok]
Tasks == 1..MaxProcs
NoSessArg == [sid |-> 0]
PermissionRequestIds == 1..MaxPermissionRequests
NoPermissionRequest == [request_id |-> 0]
permission_validity_mins == 5
SecsPerMin == 60

\* A SessionEvent as a subscriber sees it; `change` is the number of the
\* status change it reports (0 for events that report none).
Event(kind, id, change) == [kind |-> kind, id |-> id, change |-> change]

InitSession ==
    /\ active_sessions = [s \in SessionIds |-> NoSession]
    /\ session_history = <<>>
    /\ next_session_id = 1
    /\ sess_call = NoSessCall
    /\ events = <<>>
    /\ changes = 0
    /\ sess_pc = [p \in Tasks |-> "idle"]
    /\ sess_arg = [p \in Tasks |-> NoSessArg]
    /\ permission_requests = [r \in PermissionRequestIds |-> NoPermissionRequest]
    /\ next_permission_id = 1

\* history.retain(|record| record.end_time > cutoff)
RECURSIVE RetainRecords(_, _)
RetainRecords(history, cutoff) ==
    IF history = <<>> THEN <<>>
    ELSE LET rest == RetainRecords(Tail(history), cutoff)
         IN  IF Head(history).end_time > cutoff
             THEN <<Head(history)>> \o rest
             ELSE rest

cleanup_old_records(history) ==
    RetainRecords(history, now - history_retention_days * SecsPerDay)

\* The calls in flight, and room in the event log for one more call.
InFlight == Cardinality({p \in Tasks : sess_pc[p] # "idle"})
CanEmit == Len(events) + InFlight < MaxEvents

\* emit_event: every registered callback is called with the event.
emit_event(event) == events' = Append(events, event)

\* Session::new gives the session a fresh id and status Pending.
create_session ==
    /\ next_session_id <= MaxSessions
    /\ CanEmit
    /\ active_sessions' =
           [active_sessions EXCEPT ![next_session_id] = "Pending"]
    /\ next_session_id' = next_session_id + 1
    /\ emit_event(Event("Created", next_session_id, 0))
    /\ sess_call' = SessCall("create", next_session_id, TRUE)
    /\ UNCHANGED <<session_history, changes, sess_pc, sess_arg,
                   permission_requests, next_permission_id>>

\* The status a found session gets from join_session.
JoinedStatus(status) == "Active"

\* join_session, under the write lock of the session table: the status is
\* set and the lock dropped.
join_session(p, s) ==
    /\ sess_pc[p] = "idle"
    /\ IF active_sessions[s] # NoSession
       THEN /\ CanEmit
            /\ active_sessions' =
                   [active_sessions EXCEPT ![s] = JoinedStatus(@)]
            /\ changes' = changes + 1
            /\ sess_pc' = [sess_pc EXCEPT ![p] = "join_emit"]
            /\ sess_arg' = [sess_arg EXCEPT ![p] =
                               [sid |-> s, change |-> changes + 1]]
            /\ sess_call' = SessCall("join", s, TRUE)
       ELSE /\ sess_call' = SessCall("join", s, FALSE)
            /\ UNCHANGED <<active_sessions, changes, sess_pc, sess_arg>>
    /\ UNCHANGED <<session_history, next_session_id, events,
                   permission_requests, next_permission_id>>

\* join_session, after the lock is dropped: Started is emitted.
join_session_emit(p) ==
    /\ sess_pc[p] = "join_emit"
    /\ emit_event(Event("Started", sess_arg[p].sid, sess_arg[p].change))
    /\ sess_pc' = [sess_pc EXCEPT ![p] = "idle"]
    /\ sess_arg' = [sess_arg EXCEPT ![p] = NoSessArg]
    /\ sess_call' = SessCall("emit", sess_arg[p].sid, TRUE)
    /\ UNCHANGED <<active_sessions, session_history, next_session_id,
                   changes, permission_requests, next_permission_id>>

\* The status a found session gets from pause_session.
PausedStatus(status) == "Paused"

\* pause_session sets the status and emits Paused under the write lock.
pause_session(s) ==
    /\ IF active_sessions[s] # NoSession
       THEN /\ CanEmit
            /\ active_sessions' =
                   [active_sessions EXCEPT ![s] = PausedStatus(@)]
            /\ changes' = changes + 1
            /\ emit_event(Event("Paused", s, changes + 1))
            /\ sess_call' = SessCall("pause", s, TRUE)
       ELSE /\ sess_call' = SessCall("pause", s, FALSE)
            /\ UNCHANGED <<active_sessions, changes, events>>
    /\ UNCHANGED <<session_history, next_session_id, sess_pc, sess_arg,
                   permission_requests, next_permission_id>>

\* The status a found session gets from resume_session.
ResumedStatus(status) == "Active"

\* resume_session sets the status and emits Resumed under the write lock.
resume_session(s) ==
    /\ IF active_sessions[s] # NoSession
       THEN /\ CanEmit
            /\ active_sessions' =
                   [active_sessions EXCEPT ![s] = ResumedStatus(@)]
            /\ changes' = changes + 1
            /\ emit_event(Event("Resumed", s, changes + 1))
            /\ sess_call' = SessCall("resume", s, TRUE)
       ELSE /\ sess_call' = SessCall("resume", s, FALSE)
            /\ UNCHANGED <<active_sessions, changes, events>>
    /\ UNCHANGED <<session_history, next_session_id, sess_pc, sess_arg,
                   permission_requests, next_permission_id>>

\* sessions.remove(session_id) (RemoveSession); KeepEndedSession leaves the
\* session in the table with status Ended.
KeepEndedSession(sessions, s) == [sessions EXCEPT ![s] = "Ended"]
RemoveSession(sessions, s) == [sessions EXCEPT ![s] = NoSession]

\* end_session, under the write lock of the session table: the session is
\* removed and its record built.
end_session(p, s, reason) ==
    /\ sess_pc[p] = "idle"
    /\ IF active_sessions[s] # NoSession
       THEN /\ Len(session_history) < MaxHistory
            /\ CanEmit
            /\ active_sessions' = RemoveSession(active_sessions, s)
            /\ changes' = changes + 1
            /\ sess_pc' = [sess_pc EXCEPT ![p] = "end_record"]
            /\ sess_arg' = [sess_arg EXCEPT ![p] =
                               [sid |-> s, change |-> changes + 1,
                                record |->
                                    [session_id |-> s, end_time |-> now,
                                     end_reason |-> reason]]]
            /\ sess_call' = SessCall("end", s, TRUE)
       ELSE /\ sess_call' = SessCall("end", s, FALSE)
            /\ UNCHANGED <<active_sessions, changes, sess_pc, sess_arg>>
    /\ UNCHANGED <<session_history, next_session_id, events,
                   permission_requests, next_permission_id>>

\* end_session, after the lock is dropped: the record is appended to the
\* history and the history cleaned up.
end_session_record(p) ==
    /\ sess_pc[p] = "end_record"
    /\ session_history' =
           cleanup_old_records(Append(session_history, sess_arg[p].record))
    /\ sess_pc' = [sess_pc EXCEPT ![p] = "end_emit"]
    /\ sess_call' = SessCall("record", sess_arg[p].sid, TRUE)
    /\ UNCHANGED <<active_sessions, next_session_id, events, changes,
                   sess_arg, permission_requests, next_permission_id>>

\* end_session, last step: Ended is emitted.
end_session_emit(p) ==
    /\ sess_pc[p] = "end_emit"
    /\ emit_event(Event("Ended", sess_arg[p].sid, sess_arg[p].change))
    /\ sess_pc' = [sess_pc EXCEPT ![p] = "idle"]
    /\ sess_arg' = [sess_arg EXCEPT ![p] = NoSessArg]
    /\ sess_call' = SessCall("emit", sess_arg[p].sid, TRUE)
    /\ UNCHANGED <<active_sessions, session_history, next_session_id,
                   changes, permission_requests, next_permission_id>>

\* update_session_stats, under the write lock: the statistics of a found
\* session are updated (the model keeps no statistics).
update_session_stats(p, s) ==
    /\ sess_pc[p] = "idle"
    /\ IF active_sessions[s] # NoSession
       THEN /\ CanEmit
            /\ sess_pc' = [sess_pc EXCEPT ![p] = "stats_emit"]
            /\ sess_arg' = [sess_arg EXCEPT ![p] = [sid |-> s, change |-> 0]]
            /\ sess_call' = SessCall("update_stats", s, TRUE)
       ELSE /\ sess_call' = SessCall("update_stats", s, FALSE)
            /\ UNCHANGED <<sess_pc, sess_arg>>
    /\ UNCHANGED <<active_sessions, session_history, next_session_id,
                   events, changes, permission_requests, next_permission_id>>

\* update_session_stats, after the lock is dropped: StatsUpdated is emitted.
update_session_stats_emit(p) ==
    /\ sess_pc[p] = "stats_emit"
    /\ emit_event(Event("StatsUpdated", sess_arg[p].sid, 0))
    /\ sess_pc' = [sess_pc EXCEPT ![p] = "idle"]
    /\ sess_arg' = [sess_arg EXCEPT ![p] = NoSessArg]
    /\ sess_call' = SessCall("emit", sess_arg[p].sid, TRUE)
    /\ UNCHANGED <<active_sessions, session_history, next_session_id,
                   changes, permission_requests, next_permission_id>>

\* The clock advances by a second at any time, and by the retention period
\* while no call is in flight.
TickSession(limit) ==
    /\ \/ Tick({1}, limit)
       \/ InFlight = 0
            /\ Tick({history_retention_days * SecsPerDay}, limit)
    /\ sess_call' = NoSessCall
    /\ UNCHANGED <<active_sessions, session_history, next_session_id, events,
                   changes, sess_pc, sess_arg, permission_requests,
                   next_permission_id>>

\* PermissionRequest::new and the insertion into pending_requests, then
\* PermissionRequested is emitted.
request_permission ==
    /\ next_permission_id <= MaxPermissionRequests
    /\ CanEmit
    /\ permission_requests' =
           [permission_requests EXCEPT ![next_permission_id] =
               [request_id |-> next_permission_id,
                created_at |-> now,
                expires_at |-> now + permission_validity_mins * SecsPerMin]]
    /\ next_permission_id' = next_permission_id + 1
    /\ emit_event(Event("PermissionRequested", next_permission_id, 0))
    /\ sess_call' = SessCall("request_permission", next_permission_id, TRUE)
    /\ UNCHANGED <<active_sessions, session_history, next_session_id,
                   changes, sess_pc, sess_arg>>

\* PermissionRequest::is_expired; PermissionRequest_is_expiredReversed is
\* the comparison turned round.
PermissionRequest_is_expiredReversed(request) == now < request.expires_at
PermissionRequest_is_expired(request) == now > request.expires_at

GrantCall(request_id, grant, ok, err) ==
    [op |-> "grant", sid |-> request_id, grant |-> grant, ok |-> ok,
     err |-> err]

\* grant_permission holds the write lock of pending_requests throughout.
grant_permission(request_id, grant) ==
    /\ IF permission_requests[request_id] # NoPermissionRequest
       THEN /\ permission_requests' =
                   [permission_requests EXCEPT
                       ![request_id] = NoPermissionRequest]
            /\ IF PermissionRequest_is_expired(
                      permission_requests[request_id])
               THEN /\ sess_call' =
                           GrantCall(request_id, grant, FALSE, "expired")
                    /\ UNCHANGED events
               ELSE /\ CanEmit
                    /\ emit_event(
                           Event(IF grant THEN "PermissionGranted"
                                 ELSE "PermissionDenied", request_id, 0))
                    /\ sess_call' = GrantCall(request_id, grant, TRUE, "")
       ELSE /\ sess_call' = GrantCall(request_id, grant, FALSE, "not found")
            /\ UNCHANGED <<permission_requests, events>>
    /\ UNCHANGED <<active_sessions, session_history, next_session_id,
                   changes, sess_pc, sess_arg, next_permission_id>>

NextPermission ==
    \/ request_permission /\ UNCHANGED <<clockVars, keyVars, replayVars, bruteVars, accessVars, authVars, secTaskVars, sigVars, rtcVars, netVars, capVars, perfVars, certVars>>
    \/ \E r \in PermissionRequestIds, g \in BOOLEAN :
           grant_permission(r, g) /\ UNCHANGED <<clockVars, keyVars, replayVars, bruteVars, accessVars, authVars, secTaskVars, sigVars, rtcVars, netVars, capVars, perfVars, certVars>>
    \/ /\ Tick({1, permission_validity_mins * SecsPerMin - 1},
               MaxPermissionTicks)
       /\ sess_call' = NoSessCall
       /\ UNCHANGED <<active_sessions, session_history, next_session_id,
                      events, changes, sess_pc, sess_arg,
                      permission_requests, next_permission_id>>
       /\ UNCHANGED <<keyVars, replayVars, bruteVars, accessVars, authVars, secTaskVars, sigVars, rtcVars, netVars, capVars, perfVars, certVars>>

NextSession ==
    \/ create_session /\ UNCHANGED <<clockVars, keyVars, replayVars, bruteVars, accessVars, authVars, secTaskVars, sigVars, rtcVars, netVars, capVars, perfVars, certVars>>
    \/ \E p \in Tasks, s \in SessionIds :
           join_session(p, s) /\ UNCHANGED <<clockVars, keyVars, replayVars, bruteVars, accessVars, authVars, secTaskVars, sigVars, rtcVars, netVars, capVars, perfVars, certVars>>
    \/ \E p \in Tasks : join_session_emit(p) /\ UNCHANGED <<clockVars, keyVars, replayVars, bruteVars, accessVars, authVars, secTaskVars, sigVars, rtcVars, netVars, capVars, perfVars, certVars>>
    \/ \E s \in SessionIds : pause_session(s) /\ UNCHANGED <<clockVars, keyVars, replayVars, bruteVars, accessVars, authVars, secTaskVars, sigVars, rtcVars, netVars, capVars, perfVars, certVars>>
    \/ \E s \in SessionIds : resume_session(s) /\ UNCHANGED <<clockVars, keyVars, replayVars, bruteVars, accessVars, authVars, secTaskVars, sigVars, rtcVars, netVars, capVars, perfVars, certVars>>
    \/ \E p \in Tasks, s \in SessionIds, r \in EndReason :
           end_session(p, s, r) /\ UNCHANGED <<clockVars, keyVars, replayVars, bruteVars, accessVars, authVars, secTaskVars, sigVars, rtcVars, netVars, capVars, perfVars, certVars>>
    \/ \E p \in Tasks : end_session_record(p) /\ UNCHANGED <<clockVars, keyVars, replayVars, bruteVars, accessVars, authVars, secTaskVars, sigVars, rtcVars, netVars, capVars, perfVars, certVars>>
    \/ \E p \in Tasks : end_session_emit(p) /\ UNCHANGED <<clockVars, keyVars, replayVars, bruteVars, accessVars, authVars, secTaskVars, sigVars, rtcVars, netVars, capVars, perfVars, certVars>>
    \/ \E p \in Tasks, s \in SessionIds :
           update_session_stats(p, s) /\ UNCHANGED <<clockVars, keyVars, replayVars, bruteVars, accessVars, authVars, secTaskVars, sigVars, rtcVars, netVars, capVars, perfVars, certVars>>
    \/ \E p \in Tasks :
           update_session_stats_emit(p) /\ UNCHANGED <<clockVars, keyVars, replayVars, bruteVars, accessVars, authVars, secTaskVars, sigVars, rtcVars, netVars, capVars, perfVars, certVars>>
    \/ TickSession(MaxTicks)
           /\ UNCHANGED <<keyVars, replayVars, bruteVars, accessVars, authVars, secTaskVars, sigVars, rtcVars, netVars, capVars, perfVars, certVars>>

(***************************************************************************)
(* Security Manager: session keys and AEAD envelopes (security.rs).        *)
(***************************************************************************)
KeySessionIds == 1..MaxKeySessions
Plaintexts == 1..MaxPlain
KeyIds == 1..MaxKeys
NoKey == [key |-> 0]
NoState == [max_nonces |-> 0]
NoCipher == 0
max_nonces == 100000
nonce_expiration_secs == 300

\* ReplayDetectionState::default()
DefaultReplayDetectionState ==
    [seen_nonces |-> {}, max_nonces |-> max_nonces,
     oldest_nonce_time |-> now,
     nonce_expiration_secs |-> nonce_expiration_secs]

\* sec_call names the operation, its session (or identifier), its argument
\* and what it returned.
NoSecCall == [op |-> "none", sid |-> 0, arg |-> 0, ok |-> TRUE, out |-> 0]
SecCall(op, sid, arg, ok, out) ==
    [op |-> op, sid |-> sid, arg |-> arg, ok |-> ok, out |-> out]

NoSecArg == [sid |-> 0]
Nonces == 1..MaxNonces
Identifiers == 1..MaxIdentifiers
Never == -1
NoLockout == -1
NeverPresented == [n \in Nonces |-> Never]

\* KeyRotationConfig::default()
rotation_interval_secs == 3600
grace_period_secs == 60
DefaultKeyRotationConfig ==
    [rotation_interval_secs |-> rotation_interval_secs,
     grace_period_secs |-> grace_period_secs,
     auto_rotate |-> TRUE]

\* ThreatDetectionConfig::default()
max_failed_attempts == 5
lockout_duration_secs == 300
attempt_window_secs == 60
DefaultThreatDetectionConfig ==
    [detect_replay_attacks |-> TRUE,
     detect_tampering |-> TRUE,
     detect_brute_force |-> TRUE,
     max_failed_attempts |-> max_failed_attempts,
     lockout_duration_secs |-> lockout_duration_secs,
     attempt_window_secs |-> attempt_window_secs]

\* SecurityManager::new() / with_config()
InitSecurityTables ==
    /\ session_keys = [s \in KeySessionIds |-> NoKey]
    /\ old_session_keys = [s \in KeySessionIds |-> <<>>]
    /\ replay_detection = [s \in KeySessionIds |-> NoState]
    /\ next_key = 1
    /\ envelopes = {}
    /\ sec_call = NoSecCall
    /\ first_presented = [s \in KeySessionIds |-> NeverPresented]
    /\ failed_attempts =
           [attempts |-> [id \in Identifiers |-> <<>>],
            lockouts |-> [id \in Identifiers |-> NoLockout]]
    /\ attempt_log = [id \in Identifiers |-> <<>>]
    /\ locked_at = [id \in Identifiers |-> Never]
    /\ sec_pc = [p \in Tasks |-> "idle"]
    /\ sec_arg = [p \in Tasks |-> NoSecArg]

\* The configurations of configure_key_rotation the key checks run under.
KeyRotationConfigs ==
    [rotation_interval_secs : 0..MaxRotationInterval,
     grace_period_secs : 0..MaxGrace,
     auto_rotate : BOOLEAN]

\* The counter a freshly generated SessionKey starts with.
InitialRotationCount(existing) == 0

generate_session_key(s) ==
    /\ next_key <= MaxKeys
    /\ session_keys' =
           [session_keys EXCEPT ![s] =
               [key |-> next_key,
                created_at |-> now,
                rotation_count |-> InitialRotationCount(@),
                last_rotated_at |-> now,
                max_age_secs |-> key_rotation_config.rotation_interval_secs,
                auto_rotate |-> key_rotation_config.auto_rotate]]
    /\ replay_detection' =
           [replay_detection EXCEPT ![s] = DefaultReplayDetectionState]
    /\ next_key' = next_key + 1
    /\ first_presented' = [first_presented EXCEPT ![s] = NeverPresented]
    /\ sec_call' = SecCall("generate", s, 0, TRUE, next_key)
    /\ UNCHANGED <<config, key_rotation_config, old_session_keys, envelopes,
                   threat_detection_config>>

\* The body of rotate_session_key on an existing key: the key bytes are
\* replaced by the fresh bytes `fresh`.
RotatedKey(existing, fresh) ==
    [existing EXCEPT !.key = fresh,
                     !.last_rotated_at = now,
                     !.rotation_count = @ + 1]

\* The entry rotate_session_key pushes onto the old-keys list.
OldKeyEntry(existing) ==
    [key |-> existing,
     expiration |-> now + key_rotation_config.grace_period_secs]

rotate_session_key(s) ==
    /\ IF session_keys[s] # NoKey
       THEN /\ next_key <= MaxKeys
            /\ old_session_keys' =
                   [old_session_keys EXCEPT
                       ![s] = Append(@, OldKeyEntry(session_keys[s]))]
            /\ session_keys' =
                   [session_keys EXCEPT ![s] = RotatedKey(@, next_key)]
            /\ next_key' = next_key + 1
            /\ sec_call' = SecCall("rotate", s, 0, TRUE, {s})
       ELSE /\ sec_call' = SecCall("rotate", s, 0, FALSE, {})
            /\ UNCHANGED <<session_keys, old_session_keys, next_key>>
    /\ UNCHANGED <<config, key_rotation_config, replayVars, envelopes>>

needs_key_rotation(s) ==
    IF session_keys[s] # NoKey
    THEN IF ~session_keys[s].auto_rotate
         THEN FALSE
         ELSE now - session_keys[s].last_rotated_at
                  > session_keys[s].max_age_secs
    ELSE FALSE

\* keys.retain(|(_, expiration)| *expiration > now)
RECURSIVE RetainUnexpired(_)
RetainUnexpired(keys) ==
    IF keys = <<>> THEN <<>>
    ELSE IF Head(keys).expiration > now
         THEN <<Head(keys)>> \o RetainUnexpired(Tail(keys))
         ELSE RetainUnexpired(Tail(keys))

cleanup_expired_old_keys(old_keys) ==
    [s \in KeySessionIds |-> RetainUnexpired(old_keys[s])]

\* The position of session s among the sessions auto_rotate_expired_keys
\* rotates; it fixes which fresh bytes s receives.
RotationRank(s, rotating) == Cardinality({x \in rotating : x < s})

auto_rotate_expired_keys ==
    LET rotating == {s \in KeySessionIds : needs_key_rotation(s)}
    IN  /\ next_key + Cardinality(rotating) <= MaxKeys + 1
        /\ session_keys' =
               [s \in KeySessionIds |->
                   IF s \in rotating
                   THEN RotatedKey(session_keys[s],
                                   next_key + RotationRank(s, rotating))
                   ELSE session_keys[s]]
        /\ old_session_keys' =
               cleanup_expired_old_keys(
                   [s \in KeySessionIds |->
                       IF s \in rotating
                       THEN Append(old_session_keys[s],
                                   OldKeyEntry(session_keys[s]))
                       ELSE old_session_keys[s]])
        /\ next_key' = next_key + Cardinality(rotating)
        /\ sec_call' = SecCall("auto_rotate", 0, 0, TRUE, rotating)
        /\ UNCHANGED <<config, key_rotation_config, replayVars, envelopes>>

get_session_key(s) == session_keys[s]

remove_session_key(s) ==
    /\ session_keys' = [session_keys EXCEPT ![s] = NoKey]
    /\ replay_detection' = [replay_detection EXCEPT ![s] = NoState]
    /\ old_session_keys' = [old_session_keys EXCEPT ![s] = <<>>]
    /\ first_presented' = [first_presented EXCEPT ![s] = NeverPresented]
    /\ sec_call' = SecCall("remove", s, 0, TRUE, 0)
    /\ UNCHANGED <<config, key_rotation_config, next_key, envelopes,
                   threat_detection_config>>

\* AES-256-GCM: the envelope produced under key k for plaintext data.
encrypt_with_aes_gcm(k, data, key_id) ==
    [key_id |-> key_id, k |-> k, pt |-> data]

\* AES-256-GCM: the tag verifies exactly under the key that sealed the
\* envelope.  decrypt_with_aes_gcmNoTag hands the cipher the ciphertext
\* without the tag appended, which never verifies.
decrypt_with_aes_gcmNoTag(k, encrypted) == [ok |-> FALSE, pt |-> 0]
decrypt_with_aes_gcm(k, encrypted) ==
    IF encrypted.k = k
    THEN [ok |-> TRUE, pt |-> encrypted.pt]
    ELSE [ok |-> FALSE, pt |-> 0]

encrypt_media_stream(s, data) ==
    /\ IF ~config.enable_dtls_srtp
       THEN LET e == [key_id |-> s, k |-> NoCipher, pt |-> data]
            IN  /\ envelopes' = envelopes \cup {e}
                /\ sec_call' = SecCall("encrypt", s, data, TRUE, e)
       ELSE IF session_keys[s] = NoKey
            THEN /\ sec_call' = SecCall("encrypt", s, data, FALSE, 0)
                 /\ UNCHANGED envelopes
            ELSE LET e == encrypt_with_aes_gcm(session_keys[s].key, data, s)
                 IN  /\ envelopes' = envelopes \cup {e}
                     /\ sec_call' = SecCall("encrypt", s, data, TRUE, e)
    /\ UNCHANGED <<config, key_rotation_config, session_keys,
                   old_session_keys, replayVars, next_key>>

\* The keys decrypt_media_stream tries on an envelope of session s.
DecryptionKeys(s) == {session_keys[s].key}

decrypt_media_stream(s, encrypted) ==
    /\ IF ~config.enable_dtls_srtp
       THEN sec_call' = SecCall("decrypt", s, encrypted, TRUE, encrypted.pt)
       ELSE IF session_keys[s] = NoKey
            THEN sec_call' = SecCall("decrypt", s, encrypted, FALSE, 0)
            ELSE LET opened ==
                       {decrypt_with_aes_gcm(k, encrypted) :
                            k \in DecryptionKeys(s)}
                     good == {r \in opened : r.ok}
                 IN  IF good # {}
                     THEN sec_call' =
                              SecCall("decrypt", s, encrypted, TRUE,
                                      (CHOOSE r \in good : TRUE).pt)
                     ELSE sec_call' =
                              SecCall("decrypt", s, encrypted, FALSE, 0)
    /\ UNCHANGED <<config, key_rotation_config, session_keys,
                   old_session_keys, replayVars, next_key, envelopes>>

\* The body shared by encrypt_media_stream, encrypt_file_data and
\* encrypt_signaling_data; `enabled` is the function's configuration flag.
EncryptUnder(op, enabled, s, data) ==
    /\ IF ~enabled
       THEN LET e == [key_id |-> s, k |-> NoCipher, pt |-> data]
            IN  /\ envelopes' = envelopes \cup {e}
                /\ sec_call' = SecCall(op, s, data, TRUE, e)
       ELSE IF session_keys[s] = NoKey
            THEN /\ sec_call' = SecCall(op, s, data, FALSE, 0)
                 /\ UNCHANGED envelopes
            ELSE LET e == encrypt_with_aes_gcm(session_keys[s].key, data, s)
                 IN  /\ envelopes' = envelopes \cup {e}
                     /\ sec_call' = SecCall(op, s, data, TRUE, e)
    /\ UNCHANGED <<config, key_rotation_config, session_keys,
                   old_session_keys, replayVars, next_key>>

\* The body shared by decrypt_media_stream, decrypt_file_data and
\* decrypt_signaling_data.
DecryptUnder(op, enabled, s, encrypted) ==
    /\ IF ~enabled
       THEN sec_call' = SecCall(op, s, encrypted, TRUE, encrypted.pt)
       ELSE IF session_keys[s] = NoKey
            THEN sec_call' = SecCall(op, s, encrypted, FALSE, 0)
            ELSE LET opened ==
                       decrypt_with_aes_gcm(session_keys[s].key, encrypted)
                 IN  sec_call' =
                         SecCall(op, s, encrypted, opened.ok, opened.pt)
    /\ UNCHANGED <<config, key_rotation_config, session_keys,
                   old_session_keys, replayVars, next_key, envelopes>>

encrypt_file_data(s, data) ==
    EncryptUnder("encrypt_file", config.enable_file_encryption, s, data)

decrypt_file_data(s, encrypted) ==
    DecryptUnder("decrypt_file", config.enable_file_encryption, s, encrypted)

encrypt_signaling_data(s, data) ==
    EncryptUnder("encrypt_signaling", config.enable_tls_signaling, s, data)

decrypt_signaling_data(s, encrypted) ==
    DecryptUnder("decrypt_signaling", config.enable_tls_signaling, s,
                 encrypted)

\* The clock advances between two calls.
TickSecurity(steps, limit) ==
    /\ Tick(steps, limit)
    /\ sec_call' = NoSecCall
    /\ UNCHANGED <<config, key_rotation_config, session_keys,
                   old_session_keys, replayVars, next_key, envelopes>>

NextKeys ==
    \/ \E s \in KeySessionIds :
           generate_session_key(s) /\ UNCHANGED <<clockVars, sessVars, bruteVars, accessVars, authVars, secTaskVars, sigVars, rtcVars, netVars, capVars, perfVars, certVars>>
    \/ \E s \in KeySessionIds :
           rotate_session_key(s) /\ UNCHANGED <<clockVars, sessVars, bruteVars, accessVars, authVars, secTaskVars, sigVars, rtcVars, netVars, capVars, perfVars, certVars>>
    \/ auto_rotate_expired_keys /\ UNCHANGED <<clockVars, sessVars, bruteVars, accessVars, authVars, secTaskVars, sigVars, rtcVars, netVars, capVars, perfVars, certVars>>
    \/ \E s \in KeySessionIds :
           remove_session_key(s) /\ UNCHANGED <<clockVars, sessVars, bruteVars, accessVars, authVars, secTaskVars, sigVars, rtcVars, netVars, capVars, perfVars, certVars>>
    \/ \E s \in KeySessionIds, data \in Plaintexts :
           encrypt_media_stream(s, data) /\ UNCHANGED <<clockVars, sessVars, bruteVars, accessVars, authVars, secTaskVars, sigVars, rtcVars, netVars, capVars, perfVars, certVars>>
    \/ \E s \in KeySessionIds, e \in envelopes :
           decrypt_media_stream(s, e) /\ UNCHANGED <<clockVars, sessVars, bruteVars, accessVars, authVars, secTaskVars, sigVars, rtcVars, netVars, capVars, perfVars, certVars>>
    \/ TickSecurity({1}, MaxKeyTicks) /\ UNCHANGED <<sessVars, bruteVars, accessVars, authVars, secTaskVars, sigVars, rtcVars, netVars, capVars, perfVars, certVars>>

\* The session whose payloads are encrypted and decrypted (sessions do not
\* share keys).
CipherSessionIds == {s \in KeySessionIds : \A t \in KeySessionIds : s <= t}

\* The envelopes kept for decryption are bounded.
CanSeal == Cardinality(envelopes) < MaxEnvelopes

NextRoundTrip ==
    \/ \E s \in CipherSessionIds :
           generate_session_key(s) /\ UNCHANGED <<clockVars, sessVars, bruteVars, accessVars, authVars, secTaskVars, sigVars, rtcVars, netVars, capVars, perfVars, certVars>>
    \/ \E s \in CipherSessionIds :
           rotate_session_key(s) /\ UNCHANGED <<clockVars, sessVars, bruteVars, accessVars, authVars, secTaskVars, sigVars, rtcVars, netVars, capVars, perfVars, certVars>>
    \/ \E s \in CipherSessionIds :
           remove_session_key(s) /\ UNCHANGED <<clockVars, sessVars, bruteVars, accessVars, authVars, secTaskVars, sigVars, rtcVars, netVars, capVars, perfVars, certVars>>
    \/ \E s \in CipherSessionIds, data \in Plaintexts :
           CanSeal /\ encrypt_media_stream(s, data) /\ UNCHANGED <<clockVars, sessVars, bruteVars, accessVars, authVars, secTaskVars, sigVars, rtcVars, netVars, capVars, perfVars, certVars>>
    \/ \E s \in CipherSessionIds, e \in envelopes :
           decrypt_media_stream(s, e) /\ UNCHANGED <<clockVars, sessVars, bruteVars, accessVars, authVars, secTaskVars, sigVars, rtcVars, netVars, capVars, perfVars, certVars>>
    \/ \E s \in CipherSessionIds, data \in Plaintexts :
           CanSeal /\ encrypt_file_data(s, data) /\ UNCHANGED <<clockVars, sessVars, bruteVars, accessVars, authVars, secTaskVars, sigVars, rtcVars, netVars, capVars, perfVars, certVars>>
    \/ \E s \in CipherSessionIds, e \in envelopes :
           decrypt_file_data(s, e) /\ UNCHANGED <<clockVars, sessVars, bruteVars, accessVars, authVars, secTaskVars, sigVars, rtcVars, netVars, capVars, perfVars, certVars>>
    \/ \E s \in CipherSessionIds, data \in Plaintexts :
           CanSeal /\ encrypt_signaling_data(s, data) /\ UNCHANGED <<clockVars, sessVars, bruteVars, accessVars, authVars, secTaskVars, sigVars, rtcVars, netVars, capVars, perfVars, certVars>>
    \/ \E s \in CipherSessionIds, e \in envelopes :
           decrypt_signaling_data(s, e) /\ UNCHANGED <<clockVars, sessVars, bruteVars, accessVars, authVars, secTaskVars, sigVars, rtcVars, netVars, capVars, perfVars, certVars>>

\* Bytes that are no key: halves of two different keys.
NotAKey == -1

\* The key a task holds after `.key.clone()`, from the two halves it copied.
AssembledKey(hi, lo) == IF hi = lo THEN hi ELSE NotAKey

\* session_keys.write() is granted only while no task holds a read guard;
\* KeysWriteLockIgnored grants it regardless.
KeysWriteLockIgnored == TRUE
KeysWriteLockFree == \A p \in Tasks : sec_pc[p] # "cloning"

\* encrypt_media_stream and decrypt_media_stream as a task runs them: up to
\* the read guard on session_keys and the first half of the key copy.
media_stream_call(p, op, s, arg) ==
    /\ sec_pc[p] = "idle"
    /\ IF ~config.enable_dtls_srtp
       THEN /\ IF op = "encrypt"
               THEN LET e == [key_id |-> s, k |-> NoCipher, pt |-> arg]
                    IN  /\ envelopes' = envelopes \cup {e}
                        /\ sec_call' =
                               SecCall(op, s, arg, TRUE,
                                       [key |-> NoCipher, out |-> e])
               ELSE /\ sec_call' =
                           SecCall(op, s, arg, TRUE,
                                   [key |-> NoCipher, out |-> arg.pt])
                    /\ UNCHANGED envelopes
            /\ UNCHANGED <<sec_pc, sec_arg>>
       ELSE IF session_keys[s] = NoKey
            THEN /\ sec_call' =
                        SecCall(op, s, arg, FALSE,
                                [key |-> NoCipher, out |-> 0])
                 /\ UNCHANGED <<envelopes, sec_pc, sec_arg>>
            ELSE /\ sec_pc' = [sec_pc EXCEPT ![p] = "cloning"]
                 /\ sec_arg' = [sec_arg EXCEPT ![p] =
                                    [op |-> op, sid |-> s, arg |-> arg,
                                     hi |-> session_keys[s].key,
                                     lo |-> NotAKey]]
                 /\ sec_call' = SecCall("read_key", s, arg, TRUE, 0)
                 /\ UNCHANGED envelopes
    /\ UNCHANGED <<config, key_rotation_config, session_keys,
                   old_session_keys, replayVars, next_key>>

\* The rest of the key copy; the read guard is dropped with it.
media_stream_clone(p) ==
    /\ sec_pc[p] = "cloning"
    /\ sec_pc' = [sec_pc EXCEPT ![p] = "cipher"]
    /\ sec_arg' = [sec_arg EXCEPT ![p].lo = session_keys[sec_arg[p].sid].key]
    /\ sec_call' = SecCall("clone_key", sec_arg[p].sid, sec_arg[p].arg,
                           TRUE, 0)
    /\ UNCHANGED <<config, key_rotation_config, session_keys,
                   old_session_keys, replayVars, next_key, envelopes>>

\* encrypt_with_aes_gcm or decrypt_with_aes_gcm on the copied key.
media_stream_finish(p) ==
    /\ sec_pc[p] = "cipher"
    /\ LET a == sec_arg[p]
           k == AssembledKey(a.hi, a.lo)
       IN  IF a.op = "encrypt"
           THEN LET e == encrypt_with_aes_gcm(k, a.arg, a.sid)
                IN  /\ envelopes' = envelopes \cup {e}
                    /\ sec_call' = SecCall(a.op, a.sid, a.arg, TRUE,
                                           [key |-> k, out |-> e])
           ELSE LET opened == decrypt_with_aes_gcm(k, a.arg)
                IN  /\ sec_call' = SecCall(a.op, a.sid, a.arg, opened.ok,
                                           [key |-> k, out |-> opened.pt])
                    /\ UNCHANGED envelopes
    /\ sec_pc' = [sec_pc EXCEPT ![p] = "idle"]
    /\ sec_arg' = [sec_arg EXCEPT ![p] = NoSecArg]
    /\ UNCHANGED <<config, key_rotation_config, session_keys,
                   old_session_keys, replayVars, next_key>>

\* The tasks that encrypt and decrypt while the key is rotated.
CipherTasks == {p \in Tasks : p <= MaxCipherTasks}

NextCipher ==
    \/ \E s \in CipherSessionIds :
           /\ KeysWriteLockFree
           /\ generate_session_key(s)
           /\ UNCHANGED <<clockVars, sessVars, bruteVars, accessVars, authVars, secTaskVars, sigVars, rtcVars, netVars, capVars, perfVars, certVars>>
    \/ \E s \in CipherSessionIds :
           /\ KeysWriteLockFree
           /\ rotate_session_key(s)
           /\ UNCHANGED <<clockVars, sessVars, bruteVars, accessVars, authVars, secTaskVars, sigVars, rtcVars, netVars, capVars, perfVars, certVars>>
    \/ \E p \in CipherTasks, s \in CipherSessionIds, data \in Plaintexts :
           /\ CanSeal
           /\ media_stream_call(p, "encrypt", s, data)
           /\ UNCHANGED <<clockVars, sessVars, bruteVars, accessVars, authVars, sigVars, rtcVars, netVars, capVars, perfVars, certVars>>
    \/ \E p \in CipherTasks, s \in CipherSessionIds, e \in envelopes :
           /\ media_stream_call(p, "decrypt", s, e)
           /\ UNCHANGED <<clockVars, sessVars, bruteVars, accessVars, authVars, sigVars, rtcVars, netVars, capVars, perfVars, certVars>>
    \/ \E p \in CipherTasks :
           /\ media_stream_clone(p)
           /\ UNCHANGED <<clockVars, sessVars, bruteVars, accessVars, authVars, sigVars, rtcVars, netVars, capVars, perfVars, certVars>>
    \/ \E p \in CipherTasks :
           /\ media_stream_finish(p)
           /\ UNCHANGED <<clockVars, sessVars, bruteVars, accessVars, authVars, sigVars, rtcVars, netVars, capVars, perfVars, certVars>>

(***************************************************************************)
(* Security Manager: threat detection (security.rs).                       *)
(***************************************************************************)
Payloads == 0..MaxPlain
Min(a, b) == IF a < b THEN a ELSE b

\* SHA-256 of the data, a collision-free digest.
compute_hash(data) == <<"sha256", data>>

verify_integrity(data, expected_hash) == compute_hash(data) = expected_hash

\* The replay state detect_replay_attack works on: the stored one, or a
\* default one inserted for a session that has none.
EntryOrDefault(s) ==
    IF replay_detection[s] # NoState
    THEN replay_detection[s]
    ELSE DefaultReplayDetectionState

\* "Clean up old nonces if needed"
NoncesExpired(state) ==
    now - state.oldest_nonce_time > state.nonce_expiration_secs

CleanedUp(state) ==
    IF NoncesExpired(state)
    THEN [state EXCEPT !.seen_nonces = {}, !.oldest_nonce_time = now]
    ELSE state

\* The sets of nonces the insertion may evict: none below max_nonces,
\* otherwise max_nonces / 2 of them in the set's iteration order.
Evictions(state) ==
    IF Cardinality(state.seen_nonces) >= state.max_nonces
    THEN {R \in SUBSET state.seen_nonces :
              Cardinality(R) = Min(state.max_nonces \div 2,
                                   Cardinality(state.seen_nonces))}
    ELSE {{}}

\* The effect of detect_replay_attack(s, nonce) on the replay table and its
\* result `replay`.
ReplayCheck(s, nonce, replay) ==
    IF ~threat_detection_config.detect_replay_attacks
    THEN /\ replay = FALSE
         /\ UNCHANGED replay_detection
    ELSE LET state == CleanedUp(EntryOrDefault(s))
         IN  IF nonce \in state.seen_nonces
             THEN /\ replay = TRUE
                  /\ replay_detection' =
                         [replay_detection EXCEPT ![s] = state]
             ELSE /\ replay = FALSE
                  /\ \E R \in Evictions(state) :
                         replay_detection' =
                             [replay_detection EXCEPT ![s] =
                                 [state EXCEPT !.seen_nonces =
                                     (@ \ R) \cup {nonce}]]

\* The first presentation of each nonce is remembered.
Presented(s, nonce) ==
    first_presented' =
        [first_presented EXCEPT ![s][nonce] =
            IF @ = Never THEN now ELSE @]

detect_replay_attack(s, nonce) ==
    /\ \E replay \in BOOLEAN :
           /\ ReplayCheck(s, nonce, replay)
           /\ sec_call' = SecCall("detect_replay", s, nonce, TRUE, replay)
    /\ Presented(s, nonce)
    /\ UNCHANGED <<config, key_rotation_config, session_keys,
                   old_session_keys, next_key, envelopes,
                   threat_detection_config>>

detect_tampering(data, hash) ==
    IF ~threat_detection_config.detect_tampering
    THEN FALSE
    ELSE ~verify_integrity(data, hash)

security_check(s, nonce, data, hash) ==
    /\ \E replay \in BOOLEAN :
           /\ ReplayCheck(s, nonce, replay)
           /\ sec_call' =
                  SecCall("security_check", s, nonce,
                          ~replay /\ ~detect_tampering(data, hash), replay)
    /\ Presented(s, nonce)
    /\ UNCHANGED <<config, key_rotation_config, session_keys,
                   old_session_keys, next_key, envelopes,
                   threat_detection_config>>

\* The sessions whose nonces are presented (sessions do not share replay
\* state).
ReplaySessionIds == {s \in KeySessionIds : s <= MaxReplaySessions}

\* detect_replay_attack as one of several tasks runs it: the call waits for
\* replay_detection.write().  Calls are issued until the first of them
\* returns, so that all calls in flight overlap.
detect_replay_attack_call(p, s, nonce) ==
    /\ sec_pc[p] = "idle"
    /\ \A q \in Tasks : sec_pc[q] # "done"
    /\ sec_pc' = [sec_pc EXCEPT ![p] = "waiting"]
    /\ sec_arg' = [sec_arg EXCEPT ![p] =
                       [sid |-> s, nonce |-> nonce, replay |-> FALSE,
                        fresh |-> first_presented[s][nonce] = Never]]
    /\ sec_call' = SecCall("detect_call", s, nonce, TRUE, 0)
    /\ UNCHANGED <<config, key_rotation_config, session_keys,
                   old_session_keys, next_key, envelopes, replayVars>>

\* The body of detect_replay_attack, run while the task holds the write
\* lock of replay_detection.
detect_replay_attack_locked(p) ==
    /\ sec_pc[p] = "waiting"
    /\ detect_replay_attack(sec_arg[p].sid, sec_arg[p].nonce)
    /\ sec_pc' = [sec_pc EXCEPT ![p] = "done"]
    /\ sec_arg' = [sec_arg EXCEPT ![p].replay = sec_call'.out]

\* The caller has collected the results of all its concurrent calls.
detect_replay_attack_join ==
    /\ \E p \in Tasks : sec_pc[p] = "done"
    /\ \A p \in Tasks : sec_pc[p] \in {"idle", "done"}
    /\ sec_pc' = [p \in Tasks |-> "idle"]
    /\ sec_arg' = [p \in Tasks |-> NoSecArg]
    /\ sec_call' = NoSecCall
    /\ UNCHANGED <<config, key_rotation_config, session_keys,
                   old_session_keys, next_key, envelopes, replayVars>>

NextReplayRace ==
    \/ \E p \in Tasks, s \in ReplaySessionIds, n \in Nonces :
           /\ detect_replay_attack_call(p, s, n)
           /\ UNCHANGED <<clockVars, sessVars, bruteVars, accessVars, authVars, sigVars, rtcVars, netVars, capVars, perfVars, certVars>>
    \/ \E p \in Tasks :
           /\ detect_replay_attack_locked(p)
           /\ UNCHANGED <<clockVars, sessVars, bruteVars, accessVars, authVars, sigVars, rtcVars, netVars, capVars, perfVars, certVars>>
    \/ detect_replay_attack_join
           /\ UNCHANGED <<clockVars, sessVars, bruteVars, accessVars, authVars, sigVars, rtcVars, netVars, capVars, perfVars, certVars>>
    \/ TickSecurity({1, nonce_expiration_secs}, MaxReplayTicks)
           /\ UNCHANGED <<sessVars, bruteVars, accessVars, authVars, secTaskVars, sigVars, rtcVars, netVars, capVars, perfVars, certVars>>

NextReplay ==
    \/ \E s \in ReplaySessionIds :
           generate_session_key(s) /\ UNCHANGED <<clockVars, sessVars, bruteVars, accessVars, authVars, secTaskVars, sigVars, rtcVars, netVars, capVars, perfVars, certVars>>
    \/ \E s \in ReplaySessionIds :
           remove_session_key(s) /\ UNCHANGED <<clockVars, sessVars, bruteVars, accessVars, authVars, secTaskVars, sigVars, rtcVars, netVars, capVars, perfVars, certVars>>
    \/ \E s \in ReplaySessionIds, n \in Nonces :
           detect_replay_attack(s, n) /\ UNCHANGED <<clockVars, sessVars, bruteVars, accessVars, authVars, secTaskVars, sigVars, rtcVars, netVars, capVars, perfVars, certVars>>
    \/ \E s \in ReplaySessionIds, n \in Nonces, d \in Payloads,
          h \in {compute_hash(x) : x \in Payloads} :
           security_check(s, n, d, h) /\ UNCHANGED <<clockVars, sessVars, bruteVars, accessVars, authVars, secTaskVars, sigVars, rtcVars, netVars, capVars, perfVars, certVars>>
    \/ TickSecurity({1, nonce_expiration_secs - 1}, MaxReplayTicks)
           /\ UNCHANGED <<sessVars, bruteVars, accessVars, authVars, secTaskVars, sigVars, rtcVars, netVars, capVars, perfVars, certVars>>

\* attempts.retain(|t| *t > window_start)
RECURSIVE RetainAfter(_, _)
RetainAfter(attempts, window_start) ==
    IF attempts = <<>> THEN <<>>
    ELSE IF Head(attempts) > window_start
         THEN <<Head(attempts)>> \o RetainAfter(Tail(attempts), window_start)
         ELSE RetainAfter(Tail(attempts), window_start)

\* "Check if already locked out": the stored unlock time is still ahead
\* (StillLockedOut); StillLockedOutReversed is the comparison turned round.
StillLockedOutReversed(unlock_time) == now > unlock_time
StillLockedOut(unlock_time) == now < unlock_time

\* "Check if threshold exceeded" (ShouldLockout); ShouldLockoutStrict is the
\* comparison that needs one attempt more.
ShouldLockoutStrict(len) == len > threat_detection_config.max_failed_attempts
ShouldLockout(len) == len >= threat_detection_config.max_failed_attempts

is_locked_out(id) ==
    IF failed_attempts.lockouts[id] # NoLockout
    THEN now < failed_attempts.lockouts[id]
    ELSE FALSE

track_failed_attempt(id) ==
    /\ IF ~threat_detection_config.detect_brute_force
       THEN /\ sec_call' = SecCall("track", id, 0, TRUE, FALSE)
            /\ UNCHANGED bruteVars
       ELSE IF failed_attempts.lockouts[id] # NoLockout
               /\ StillLockedOut(failed_attempts.lockouts[id])
            THEN /\ sec_call' = SecCall("track", id, 0, TRUE, TRUE)
                 /\ UNCHANGED bruteVars
            ELSE LET window_start ==
                       now - threat_detection_config.attempt_window_secs
                     attempts ==
                       Append(RetainAfter(failed_attempts.attempts[id],
                                          window_start), now)
                     unlock_time ==
                       now + threat_detection_config.lockout_duration_secs
                 IN  IF ShouldLockout(Len(attempts))
                     THEN /\ failed_attempts' =
                                 [attempts |->
                                     [failed_attempts.attempts
                                         EXCEPT ![id] = <<>>],
                                  lockouts |->
                                     [failed_attempts.lockouts
                                         EXCEPT ![id] = unlock_time]]
                          /\ sec_call' = SecCall("track", id, 0, TRUE, TRUE)
                          /\ attempt_log' = [attempt_log EXCEPT ![id] = <<>>]
                          /\ locked_at' = [locked_at EXCEPT ![id] = now]
                     ELSE /\ failed_attempts' =
                                 [attempts |->
                                     [failed_attempts.attempts
                                         EXCEPT ![id] = attempts],
                                  lockouts |->
                                     [failed_attempts.lockouts
                                         EXCEPT ![id] = NoLockout]]
                          /\ sec_call' = SecCall("track", id, 0, TRUE, FALSE)
                          /\ attempt_log' =
                                 [attempt_log EXCEPT ![id] = Append(@, now)]
                          /\ UNCHANGED locked_at
    /\ UNCHANGED <<config, key_rotation_config, session_keys,
                   old_session_keys, replayVars, next_key, envelopes>>

clear_failed_attempts(id) ==
    /\ failed_attempts' =
           [attempts |-> [failed_attempts.attempts EXCEPT ![id] = <<>>],
            lockouts |-> [failed_attempts.lockouts EXCEPT ![id] = NoLockout]]
    /\ sec_call' = SecCall("clear", id, 0, TRUE, 0)
    /\ attempt_log' = [attempt_log EXCEPT ![id] = <<>>]
    /\ locked_at' = [locked_at EXCEPT ![id] = Never]
    /\ UNCHANGED <<config, key_rotation_config, session_keys,
                   old_session_keys, replayVars, next_key, envelopes>>

\* The configurations of configure_threat_detection the lockout checks run
\* under.
ThreatDetectionConfigs ==
    {[DefaultThreatDetectionConfig EXCEPT
         !.detect_brute_force = b,
         !.max_failed_attempts = n,
         !.lockout_duration_secs = d,
         !.attempt_window_secs = w] :
         b \in BOOLEAN, n \in 1..MaxAttempts, d \in 1..MaxLockout,
         w \in 1..MaxWindow}

NextBrute ==
    \/ \E id \in Identifiers :
           track_failed_attempt(id) /\ UNCHANGED <<clockVars, sessVars, accessVars, authVars, secTaskVars, sigVars, rtcVars, netVars, capVars, perfVars, certVars>>
    \/ \E id \in Identifiers :
           clear_failed_attempts(id)
               /\ UNCHANGED <<clockVars, sessVars, accessVars, authVars, secTaskVars, sigVars, rtcVars, netVars, capVars, perfVars, certVars>>
    \/ TickSecurity({1}, MaxBruteTicks) /\ UNCHANGED <<sessVars, bruteVars, accessVars, authVars, secTaskVars, sigVars, rtcVars, netVars, capVars, perfVars, certVars>>

(***************************************************************************)
(* Access Control (access_control.rs).                                     *)
(***************************************************************************)
ACCESS_CODE_EXPIRATION_SECS == 600
Codes == 1..MaxCodes
Procs == 1..MaxProcs
Permission == {"ViewScreen", "InputControl", "FileTransfer", "Clipboard",
               "AudioCapture", "FullControl"}
\* The permission vector generate_access_code is called with.
PermissionSets == {{"ViewScreen", "InputControl"}}

\* The name, platform and version register_device is called with.
DeviceInfos ==
    {[device_name |-> "host", platform |-> "linux", version |-> "1.0"]}

NoDevice == 0
NoRegistration == [device_id |-> NoDevice]
NoCode == [code |-> 0, device_id |-> NoDevice, created_at |-> 0,
           expires_in |-> 0, permissions |-> {}, used |-> FALSE]
NoAccCall == [op |-> "none", arg |-> 0, out |-> 0]
AccCall(op, arg, out) == [op |-> op, arg |-> arg, out |-> out]

\* AccessControlManager::new()
InitAccess ==
    /\ device_id = NoDevice
    /\ device_registration = NoRegistration
    /\ next_device_id = 1
    /\ access_codes = [c \in Codes |-> NoCode]
    /\ codes_lock = 0
    /\ use_pc = [p \in Procs |-> "idle"]
    /\ use_arg = [p \in Procs |-> 0]
    /\ granted = [c \in Codes |-> 0]
    /\ acc_call = NoAccCall

\* AccessCode::is_expired; is_expiredInclusive is the comparison that already
\* expires a code at exactly expires_in.
is_expiredInclusive(access_code) ==
    now - access_code.created_at >= access_code.expires_in
is_expired(access_code) ==
    now - access_code.created_at > access_code.expires_in

\* AccessCode::is_valid
is_valid(access_code) == ~is_expired(access_code) /\ ~access_code.used

\* self.access_codes.write().await / .read().await: granted when no task
\* holds the write lock (CodesLockFree); CodesLockIgnored is the body run
\* without the lock.
CodesLockIgnored == TRUE
CodesLockFree == codes_lock = 0

\* generate_device_id() yields a fresh Uuid, at most `limit` times.
register_device(info, limit) ==
    /\ next_device_id <= limit
    /\ device_registration' =
           [device_id |-> next_device_id,
            device_name |-> info.device_name,
            platform |-> info.platform,
            version |-> info.version,
            unattended_access_enabled |-> FALSE,
            unattended_password_hash |-> 0]
    /\ device_id' = next_device_id
    /\ next_device_id' = next_device_id + 1
    /\ acc_call' = AccCall("register", 0, next_device_id)
    /\ UNCHANGED <<access_codes, codes_lock, use_pc, use_arg, granted>>

\* rand_code() yields the code string `code`.
generate_access_code(code, permissions) ==
    /\ IF device_id = NoDevice
       THEN /\ acc_call' = AccCall("generate", code, FALSE)
            /\ UNCHANGED <<access_codes, granted>>
       ELSE LET access_code ==
                  [code |-> code, device_id |-> device_id,
                   created_at |-> now,
                   expires_in |-> ACCESS_CODE_EXPIRATION_SECS,
                   permissions |-> permissions, used |-> FALSE]
            IN  /\ CodesLockFree
                /\ access_codes' = [access_codes EXCEPT ![code] = access_code]
                /\ granted' = [granted EXCEPT ![code] = 0]
                /\ acc_call' = AccCall("generate", code, TRUE)
    /\ UNCHANGED <<device_id, device_registration, next_device_id,
                   codes_lock, use_pc, use_arg>>

validate_access_code(code) ==
    /\ CodesLockFree
    /\ IF access_codes[code] # NoCode
       THEN IF is_valid(access_codes[code])
            THEN acc_call' = AccCall("validate", code, access_codes[code])
            ELSE acc_call' = AccCall("validate", code, NoCode)
       ELSE acc_call' = AccCall("validate", code, NoCode)
    /\ UNCHANGED <<device_id, device_registration, next_device_id,
                   access_codes, codes_lock, use_pc, use_arg, granted>>

\* use_access_code is called: the task asks for the write lock and waits.
use_access_code_call(p, code) ==
    /\ use_pc[p] = "idle"
    /\ use_pc' = [use_pc EXCEPT ![p] = "waiting"]
    /\ use_arg' = [use_arg EXCEPT ![p] = code]
    /\ acc_call' = NoAccCall
    /\ UNCHANGED <<device_id, device_registration, next_device_id,
                   access_codes, codes_lock, granted>>

\* use_access_code, first step: the waiting task is given the write lock,
\* get_mut finds the record and is_valid is asked; an unknown or invalid
\* code returns None and drops the lock.
use_access_code_check(p) ==
    /\ use_pc[p] = "waiting"
    /\ CodesLockFree
    /\ IF access_codes[use_arg[p]] # NoCode
          /\ is_valid(access_codes[use_arg[p]])
       THEN /\ use_pc' = [use_pc EXCEPT ![p] = "valid"]
            /\ codes_lock' = p
            /\ acc_call' = NoAccCall
            /\ UNCHANGED use_arg
       ELSE /\ use_pc' = [use_pc EXCEPT ![p] = "idle"]
            /\ use_arg' = [use_arg EXCEPT ![p] = 0]
            /\ codes_lock' = 0
            /\ acc_call' =
                   AccCall("use", use_arg[p],
                           [some |-> FALSE, permissions |-> {}])
    /\ UNCHANGED <<device_id, device_registration, next_device_id,
                   access_codes, granted>>

\* use_access_code, second step: the code is marked used, its permissions are
\* returned and the lock is dropped.
use_access_code_mark(p) ==
    /\ use_pc[p] = "valid"
    /\ access_codes' = [access_codes EXCEPT ![use_arg[p]].used = TRUE]
    /\ granted' = [granted EXCEPT ![use_arg[p]] = @ + 1]
    /\ use_pc' = [use_pc EXCEPT ![p] = "idle"]
    /\ use_arg' = [use_arg EXCEPT ![p] = 0]
    /\ codes_lock' = 0
    /\ acc_call' =
           AccCall("use", use_arg[p],
                   [some |-> TRUE,
                    permissions |-> access_codes[use_arg[p]].permissions])
    /\ UNCHANGED <<device_id, device_registration, next_device_id>>

\* codes.retain(|_, code| !code.is_expired())
cleanup_expired_codes ==
    /\ CodesLockFree
    /\ access_codes' =
           [c \in Codes |->
               IF access_codes[c] # NoCode /\ is_expired(access_codes[c])
               THEN NoCode
               ELSE access_codes[c]]
    /\ granted' =
           [c \in Codes |->
               IF access_codes[c] # NoCode /\ is_expired(access_codes[c])
               THEN 0
               ELSE granted[c]]
    /\ acc_call' = AccCall("cleanup", 0, 0)
    /\ UNCHANGED <<device_id, device_registration, next_device_id,
                   codes_lock, use_pc, use_arg>>

\* The clock advances between two steps.
TickAccess(steps, limit) ==
    /\ Tick(steps, limit)
    /\ acc_call' = NoAccCall
    /\ UNCHANGED <<device_id, device_registration, next_device_id,
                   access_codes, codes_lock, use_pc, use_arg, granted>>

NextAccess ==
    \/ \E info \in DeviceInfos :
           register_device(info, MaxRegistrations)
               /\ UNCHANGED <<clockVars, sessVars, keyVars, replayVars, bruteVars, authVars, secTaskVars, sigVars, rtcVars, netVars, capVars, perfVars, certVars>>
    \/ \E c \in Codes, perms \in PermissionSets :
           generate_access_code(c, perms)
               /\ UNCHANGED <<clockVars, sessVars, keyVars, replayVars, bruteVars, authVars, secTaskVars, sigVars, rtcVars, netVars, capVars, perfVars, certVars>>
    \/ \E c \in Codes :
           validate_access_code(c)
               /\ UNCHANGED <<clockVars, sessVars, keyVars, replayVars, bruteVars, authVars, secTaskVars, sigVars, rtcVars, netVars, capVars, perfVars, certVars>>
    \/ \E p \in Procs, c \in Codes :
           use_access_code_call(p, c)
               /\ UNCHANGED <<clockVars, sessVars, keyVars, replayVars, bruteVars, authVars, secTaskVars, sigVars, rtcVars, netVars, capVars, perfVars, certVars>>
    \/ \E p \in Procs :
           use_access_code_check(p)
               /\ UNCHANGED <<clockVars, sessVars, keyVars, replayVars, bruteVars, authVars, secTaskVars, sigVars, rtcVars, netVars, capVars, perfVars, certVars>>
    \/ \E p \in Procs :
           use_access_code_mark(p)
               /\ UNCHANGED <<clockVars, sessVars, keyVars, replayVars, bruteVars, authVars, secTaskVars, sigVars, rtcVars, netVars, capVars, perfVars, certVars>>
    \/ cleanup_expired_codes
           /\ UNCHANGED <<clockVars, sessVars, keyVars, replayVars, bruteVars, authVars, secTaskVars, sigVars, rtcVars, netVars, capVars, perfVars, certVars>>
    \/ TickAccess({ACCESS_CODE_EXPIRATION_SECS, ACCESS_CODE_EXPIRATION_SECS + 1}, MaxAccessTicks)
           /\ UNCHANGED <<sessVars, keyVars, replayVars, bruteVars, authVars, secTaskVars, sigVars, rtcVars, netVars, capVars, perfVars, certVars>>

(***************************************************************************)
(* Connection requests and authorizations (access_control.rs).             *)
(***************************************************************************)
RequestIds == 1..MaxRequests
RemoteDevices == 1..MaxRemoteDevices
Passwords == {"secret", "other"}
NoAccessCode == 0
\* granted_permissions: None, or Some(permissions).
NoGrant == <<>>
Grants == {NoGrant} \cup {<<ps>> : ps \in PermissionSets}
\* What respond_to_request is called with: an acceptance with or without
\* granted permissions, or a rejection.
Answers ==
    {[accepted |-> TRUE, granted_permissions |-> g] : g \in Grants}
        \cup {[accepted |-> FALSE, granted_permissions |-> NoGrant]}
NoRequest == [request_id |-> 0]
NoAuthorization == [device_id |-> NoDevice]
NoResponse == [accepted |-> FALSE, granted_permissions |-> {}]
NoRespArg == [request_id |-> 0]

codeVars == <<device_id, device_registration, next_device_id, access_codes,
              codes_lock, use_pc, use_arg, granted>>

InitAuth ==
    /\ pending_requests = [r \in RequestIds |-> NoRequest]
    /\ next_request_id = 1
    /\ authorized_devices = [d \in RemoteDevices |-> NoAuthorization]
    /\ requests_lock = 0
    /\ resp_pc = [p \in Procs |-> "idle"]
    /\ resp_arg = [p \in Procs |-> NoRespArg]
    /\ answered = [r \in RequestIds |-> 0]

\* self.pending_requests.write().await: granted when no task holds it.
RequestsLockFree == requests_lock = 0

\* requests.remove(request_id) (RemoveRequest); KeepRequest is a lookup
\* that leaves the request in the table.
KeepRequest(requests, request_id) == requests
RemoveRequest(requests, request_id) ==
    [requests EXCEPT ![request_id] = NoRequest]

\* DefaultHasher of the password, rendered in hexadecimal.
simple_hash(input) == <<"hash", input>>

enable_unattended_access(password) ==
    /\ IF device_registration # NoRegistration
       THEN /\ device_registration' =
                   [device_registration EXCEPT
                       !.unattended_access_enabled = TRUE,
                       !.unattended_password_hash = simple_hash(password)]
            /\ acc_call' = AccCall("enable_unattended", 0, TRUE)
       ELSE /\ acc_call' = AccCall("enable_unattended", 0, FALSE)
            /\ UNCHANGED device_registration
    /\ UNCHANGED <<device_id, next_device_id, access_codes, codes_lock,
                   use_pc, use_arg, granted, authVars>>

disable_unattended_access ==
    /\ IF device_registration # NoRegistration
       THEN /\ device_registration' =
                   [device_registration EXCEPT
                       !.unattended_access_enabled = FALSE,
                       !.unattended_password_hash = 0]
            /\ acc_call' = AccCall("disable_unattended", 0, TRUE)
       ELSE /\ acc_call' = AccCall("disable_unattended", 0, FALSE)
            /\ UNCHANGED device_registration
    /\ UNCHANGED <<device_id, next_device_id, access_codes, codes_lock,
                   use_pc, use_arg, granted, authVars>>

\* The request gets a fresh Uuid and is put into pending_requests.
handle_connection_request(from_device_id, requested_permissions, access_code) ==
    LET request ==
          [request_id |-> next_request_id,
           from_device_id |-> from_device_id,
           requested_permissions |-> requested_permissions,
           access_code |-> access_code,
           requested_at |-> now]
    IN  /\ next_request_id <= MaxRequests
        /\ RequestsLockFree
        /\ pending_requests' =
               [pending_requests EXCEPT ![next_request_id] = request]
        /\ next_request_id' = next_request_id + 1
        /\ acc_call' = AccCall("handle", next_request_id, TRUE)
        /\ UNCHANGED <<codeVars, authorized_devices, requests_lock, resp_pc,
                       resp_arg, answered>>

\* respond_to_request is called: the task asks for the write lock of
\* pending_requests and waits.
respond_to_request_call(p, request_id, accepted, granted_permissions) ==
    /\ resp_pc[p] = "idle"
    /\ resp_pc' = [resp_pc EXCEPT ![p] = "waiting"]
    /\ resp_arg' = [resp_arg EXCEPT ![p] =
                       [request_id |-> request_id, accepted |-> accepted,
                        granted_permissions |-> granted_permissions,
                        request |-> NoRequest]]
    /\ acc_call' = NoAccCall
    /\ UNCHANGED <<codeVars, pending_requests, next_request_id,
                   authorized_devices, requests_lock, answered>>

\* respond_to_request, first step: the task is given the write lock and
\* removes the request; a missing request fails with "Request not found",
\* a rejection returns its response at once.
respond_to_request_remove(p) ==
    LET arg == resp_arg[p]
        request == pending_requests[arg.request_id]
    IN  /\ resp_pc[p] = "waiting"
        /\ RequestsLockFree
        /\ IF request = NoRequest
           THEN /\ acc_call' =
                       AccCall("respond", arg.request_id,
                               [ok |-> FALSE, request |-> NoRequest,
                                response |-> NoResponse])
                /\ resp_pc' = [resp_pc EXCEPT ![p] = "idle"]
                /\ resp_arg' = [resp_arg EXCEPT ![p] = NoRespArg]
                /\ requests_lock' = 0
                /\ UNCHANGED <<pending_requests, answered>>
           ELSE /\ pending_requests' =
                       RemoveRequest(pending_requests, arg.request_id)
                /\ IF arg.accepted
                   THEN /\ resp_pc' = [resp_pc EXCEPT ![p] = "accepted"]
                        /\ resp_arg' =
                               [resp_arg EXCEPT ![p].request = request]
                        /\ requests_lock' = p
                        /\ acc_call' = NoAccCall
                        /\ UNCHANGED answered
                   ELSE /\ resp_pc' = [resp_pc EXCEPT ![p] = "idle"]
                        /\ resp_arg' = [resp_arg EXCEPT ![p] = NoRespArg]
                        /\ requests_lock' = 0
                        /\ answered' =
                               [answered EXCEPT ![arg.request_id] = @ + 1]
                        /\ acc_call' =
                               AccCall("respond", arg.request_id,
                                       [ok |-> TRUE, request |-> request,
                                        response |-> NoResponse])
        /\ UNCHANGED <<codeVars, next_request_id, authorized_devices>>

\* respond_to_request, second step of an acceptance: the authorization is
\* inserted, the response returned and the lock dropped.
respond_to_request_install(p) ==
    LET arg == resp_arg[p]
        request == arg.request
        permissions ==
          IF arg.granted_permissions = NoGrant
          THEN request.requested_permissions
          ELSE arg.granted_permissions[1]
        auth ==
          [device_id |-> request.from_device_id,
           auth_type |-> "AccessCode",
           permissions |-> permissions,
           active |-> TRUE]
    IN  /\ resp_pc[p] = "accepted"
        /\ authorized_devices' =
               [authorized_devices EXCEPT ![request.from_device_id] = auth]
        /\ resp_pc' = [resp_pc EXCEPT ![p] = "idle"]
        /\ resp_arg' = [resp_arg EXCEPT ![p] = NoRespArg]
        /\ requests_lock' = 0
        /\ answered' = [answered EXCEPT ![arg.request_id] = @ + 1]
        /\ acc_call' =
               AccCall("respond", arg.request_id,
                       [ok |-> TRUE, request |-> request,
                        response |->
                            [accepted |-> TRUE,
                             granted_permissions |-> permissions]])
        /\ UNCHANGED <<codeVars, pending_requests, next_request_id>>

is_device_authorized(d) ==
    IF authorized_devices[d] # NoAuthorization
    THEN authorized_devices[d].active
    ELSE FALSE

revoke_authorization(d) ==
    /\ IF authorized_devices[d] # NoAuthorization
       THEN /\ authorized_devices' =
                   [authorized_devices EXCEPT ![d].active = FALSE]
            /\ acc_call' = AccCall("revoke", d, TRUE)
       ELSE /\ acc_call' = AccCall("revoke", d, FALSE)
            /\ UNCHANGED authorized_devices
    /\ UNCHANGED <<codeVars, pending_requests, next_request_id,
                   requests_lock, resp_pc, resp_arg, answered>>

NextAuth ==
    \/ \E info \in DeviceInfos :
           register_device(info, MaxRegistrations)
               /\ UNCHANGED <<clockVars, sessVars, keyVars, replayVars, bruteVars, authVars, secTaskVars, sigVars, rtcVars, netVars, capVars, perfVars, certVars>>
    \/ \E c \in Codes, perms \in PermissionSets :
           generate_access_code(c, perms)
               /\ UNCHANGED <<clockVars, sessVars, keyVars, replayVars, bruteVars, authVars, secTaskVars, sigVars, rtcVars, netVars, capVars, perfVars, certVars>>
    \/ \E d \in RemoteDevices, perms \in PermissionSets,
          c \in Codes \cup {NoAccessCode} :
           handle_connection_request(d, perms, c)
               /\ UNCHANGED <<clockVars, sessVars, keyVars, replayVars, bruteVars, secTaskVars, sigVars, rtcVars, netVars, capVars, perfVars, certVars>>
    \/ \E p \in Procs, r \in RequestIds, a \in Answers :
           respond_to_request_call(p, r, a.accepted, a.granted_permissions)
               /\ UNCHANGED <<clockVars, sessVars, keyVars, replayVars, bruteVars, secTaskVars, sigVars, rtcVars, netVars, capVars, perfVars, certVars>>
    \/ \E p \in Procs :
           respond_to_request_remove(p)
               /\ UNCHANGED <<clockVars, sessVars, keyVars, replayVars, bruteVars, secTaskVars, sigVars, rtcVars, netVars, capVars, perfVars, certVars>>
    \/ \E p \in Procs :
           respond_to_request_install(p)
               /\ UNCHANGED <<clockVars, sessVars, keyVars, replayVars, bruteVars, secTaskVars, sigVars, rtcVars, netVars, capVars, perfVars, certVars>>
    \/ \E d \in RemoteDevices :
           revoke_authorization(d)
               /\ UNCHANGED <<clockVars, sessVars, keyVars, replayVars, bruteVars, secTaskVars, sigVars, rtcVars, netVars, capVars, perfVars, certVars>>
    \/ TickAccess({ACCESS_CODE_EXPIRATION_SECS + 1}, MaxAuthTicks)
           /\ UNCHANGED <<sessVars, keyVars, replayVars, bruteVars, authVars, secTaskVars, sigVars, rtcVars, netVars, capVars, perfVars, certVars>>

\* Registration and unattended access on their own.
NextRegistration ==
    \/ \E info \in DeviceInfos :
           register_device(info, MaxReRegistrations)
               /\ UNCHANGED <<clockVars, sessVars, keyVars, replayVars, bruteVars, authVars, secTaskVars, sigVars, rtcVars, netVars, capVars, perfVars, certVars>>
    \/ \E pw \in Passwords :
           enable_unattended_access(pw)
               /\ UNCHANGED <<clockVars, sessVars, keyVars, replayVars, bruteVars, secTaskVars, sigVars, rtcVars, netVars, capVars, perfVars, certVars>>
    \/ disable_unattended_access
           /\ UNCHANGED <<clockVars, sessVars, keyVars, replayVars, bruteVars, secTaskVars, sigVars, rtcVars, netVars, capVars, perfVars, certVars>>
    \/ \E c \in Codes, perms \in PermissionSets :
           generate_access_code(c, perms)
               /\ UNCHANGED <<clockVars, sessVars, keyVars, replayVars, bruteVars, authVars, secTaskVars, sigVars, rtcVars, netVars, capVars, perfVars, certVars>>
    \/ \E c \in Codes :
           validate_access_code(c)
               /\ UNCHANGED <<clockVars, sessVars, keyVars, replayVars, bruteVars, authVars, secTaskVars, sigVars, rtcVars, netVars, capVars, perfVars, certVars>>
    \/ TickAccess({1, ACCESS_CODE_EXPIRATION_SECS}, MaxAccessTicks)
           /\ UNCHANGED <<sessVars, keyVars, replayVars, bruteVars, authVars, secTaskVars, sigVars, rtcVars, netVars, capVars, perfVars, certVars>>

\* Requests and their responses on their own.
NextRespond ==
    \/ \E d \in RemoteDevices, perms \in PermissionSets :
           handle_connection_request(d, perms, NoAccessCode)
               /\ UNCHANGED <<clockVars, sessVars, keyVars, replayVars, bruteVars, secTaskVars, sigVars, rtcVars, netVars, capVars, perfVars, certVars>>
    \/ \E p \in Procs, r \in RequestIds, a \in Answers :
           respond_to_request_call(p, r, a.accepted, a.granted_permissions)
               /\ UNCHANGED <<clockVars, sessVars, keyVars, replayVars, bruteVars, secTaskVars, sigVars, rtcVars, netVars, capVars, perfVars, certVars>>
    \/ \E p \in Procs :
           respond_to_request_remove(p)
               /\ UNCHANGED <<clockVars, sessVars, keyVars, replayVars, bruteVars, secTaskVars, sigVars, rtcVars, netVars, capVars, perfVars, certVars>>
    \/ \E p \in Procs :
           respond_to_request_install(p)
               /\ UNCHANGED <<clockVars, sessVars, keyVars, replayVars, bruteVars, secTaskVars, sigVars, rtcVars, netVars, capVars, perfVars, certVars>>

(***************************************************************************)
(* Signaling client (signaling.rs).                                        *)
(***************************************************************************)
ConnIds == 1..MaxConnections
Targets == 1..MaxTargets
NoSender == 0
NoDeviceId == -1
LocalDeviceIds == {0}
MsPerSec == 1000
NoExchange == [start_time |-> Never, opened_by |-> "none"]
NoConn == [reader |-> "none", writer |-> "none", outbound |-> 0,
           closed |-> FALSE]

\* SignalingMetrics::default(); avg_rtt_ms is kept as the exact quotient
\* sum / n of the running average.
DefaultSignalingMetrics ==
    [messages_sent |-> 0, messages_received |-> 0,
     avg_rtt_ms |-> [sum |-> 0, n |-> 0],
     last_exchange_duration_ms |-> 0,
     successful_exchanges |-> 0, failed_exchanges |-> 0]

\* The frames the server may deliver: the SignalingMessage tags and a text
\* that does not parse.
MessageKinds ==
    {"RegisterResponse", "StatusResponse", "Offer", "Answer", "IceCandidate",
     "ConnectionRequest", "ConnectionResponse", "HeartbeatAck", "Error",
     "Unparsable"}

SigEvent(kind, c) == [kind |-> kind, conn |-> c]
SigCall(op, arg, ok) == [op |-> op, arg |-> arg, ok |-> ok]

\* SignalingClient::new
InitSignaling ==
    /\ sig_device_id = NoDeviceId
    /\ sig_connected = FALSE
    /\ ws_sender = NoSender
    /\ sig_conns = [c \in ConnIds |-> NoConn]
    /\ next_conn = 1
    /\ sig_events = <<>>
    /\ registered_devices = {}
    /\ metrics = DefaultSignalingMetrics
    /\ pending_exchanges = [t \in Targets |-> NoExchange]
    /\ sig_call = SigCall("none", 0, TRUE)

CanSigEmit == Len(sig_events) < MaxSigEvents

Queued ==
    LET RECURSIVE Sum(_)
        Sum(S) == IF S = {} THEN 0
                  ELSE LET c == CHOOSE x \in S : TRUE
                       IN  sig_conns[c].outbound + Sum(S \ {c})
    IN  Sum(ConnIds)

CanQueue == metrics.messages_sent + Queued < MaxSent

\* connect(): on success the sender and the connected flag are stored,
\* Connected is sent and the two loops are spawned.
connect(ok) ==
    /\ next_conn <= MaxConnections
    /\ IF ok
       THEN /\ CanSigEmit
            /\ ws_sender' = next_conn
            /\ sig_connected' = TRUE
            /\ sig_events' = Append(sig_events, SigEvent("Connected", next_conn))
            /\ sig_conns' = [sig_conns EXCEPT ![next_conn] =
                                 [reader |-> "running", writer |-> "running",
                                  outbound |-> 0, closed |-> FALSE]]
            /\ next_conn' = next_conn + 1
       ELSE UNCHANGED <<ws_sender, sig_connected, sig_events, sig_conns,
                        next_conn>>
    /\ sig_call' = SigCall("connect", next_conn, ok)
    /\ UNCHANGED <<sig_device_id, registered_devices, metrics,
                   pending_exchanges>>

\* disconnect(): the sender is cleared and the flag is reset.
disconnect ==
    /\ ws_sender' = NoSender
    /\ sig_connected' = FALSE
    /\ sig_conns' = [c \in ConnIds |->
                         IF c = ws_sender
                         THEN [sig_conns[c] EXCEPT !.closed = TRUE]
                         ELSE sig_conns[c]]
    /\ sig_call' = SigCall("disconnect", ws_sender, TRUE)
    /\ UNCHANGED <<sig_device_id, next_conn, sig_events, registered_devices,
                   metrics, pending_exchanges>>

\* send_message: Ok when the sender is present and its queue still has its
\* receiving end.
SendOk == ws_sender # NoSender /\ sig_conns[ws_sender].writer = "running"

send_message(ok) ==
    /\ ok = SendOk
    /\ IF ok
       THEN sig_conns' = [sig_conns EXCEPT ![ws_sender].outbound = @ + 1]
       ELSE UNCHANGED sig_conns

\* SignalingClient::register_device
sig_register_device(id) ==
    /\ IF ~sig_connected
       THEN /\ sig_call' = SigCall("register_device", id, FALSE)
            /\ UNCHANGED <<sig_conns, registered_devices, sig_device_id>>
       ELSE \E ok \in BOOLEAN :
                /\ send_message(ok)
                /\ sig_call' = SigCall("register_device", id, ok)
                /\ IF ok
                   THEN /\ registered_devices' = registered_devices \cup {id}
                        /\ sig_device_id' = id
                   ELSE UNCHANGED <<registered_devices, sig_device_id>>
    /\ UNCHANGED <<sig_connected, ws_sender, next_conn, sig_events, metrics,
                   pending_exchanges>>

\* send_offer records its exchange before the message is handed to
\* send_message, whatever the outcome of the send.
ExchangeOpened(pending, target_id, sent) ==
    [pending EXCEPT ![target_id] =
        [start_time |-> now, opened_by |-> "send_offer"]]

send_offer(target_id) ==
    /\ IF sig_device_id = NoDeviceId
       THEN /\ sig_call' = SigCall("send_offer", target_id, FALSE)
            /\ UNCHANGED <<pending_exchanges, sig_conns>>
       ELSE \E ok \in BOOLEAN :
                /\ send_message(ok)
                /\ pending_exchanges' =
                       ExchangeOpened(pending_exchanges, target_id, ok)
                /\ sig_call' = SigCall("send_offer", target_id, ok)
    /\ UNCHANGED <<sig_device_id, sig_connected, ws_sender, next_conn,
                   sig_events, registered_devices, metrics>>

send_answer(target_id) ==
    /\ IF sig_device_id = NoDeviceId
       THEN /\ sig_call' = SigCall("send_answer", target_id, FALSE)
            /\ UNCHANGED sig_conns
       ELSE \E ok \in BOOLEAN :
                /\ send_message(ok)
                /\ sig_call' = SigCall("send_answer", target_id, ok)
    /\ UNCHANGED <<sig_device_id, sig_connected, ws_sender, next_conn,
                   sig_events, registered_devices, metrics,
                   pending_exchanges>>

\* The send loop of connection c writes one queued message; a failed write
\* ends the loop.
send_loop_write(c, ok) ==
    /\ sig_conns[c].writer = "running"
    /\ sig_conns[c].outbound > 0
    /\ IF ok
       THEN /\ sig_conns' = [sig_conns EXCEPT ![c].outbound = @ - 1]
            /\ metrics' = [metrics EXCEPT !.messages_sent = @ + 1]
       ELSE /\ sig_conns' = [sig_conns EXCEPT ![c].writer = "ended"]
            /\ UNCHANGED metrics
    /\ sig_call' = SigCall("send_loop", c, ok)
    /\ UNCHANGED <<sig_device_id, sig_connected, ws_sender, next_conn,
                   sig_events, registered_devices, pending_exchanges>>

\* The send loop ends when its queue is drained and every sender is gone.
send_loop_exit(c) ==
    /\ sig_conns[c].writer = "running"
    /\ sig_conns[c].outbound = 0
    /\ ws_sender # c
    /\ sig_conns' = [sig_conns EXCEPT ![c].writer = "ended"]
    /\ sig_call' = SigCall("send_loop_exit", c, TRUE)
    /\ UNCHANGED <<sig_device_id, sig_connected, ws_sender, next_conn,
                   sig_events, registered_devices, metrics,
                   pending_exchanges>>

\* The exchange an Answer from `from` completes: whatever is stored under
\* the key of `from`.
AnyExchangePending(pending, from) == pending[from] # NoExchange

\* The metrics after an exchange of `duration` ms has been completed.
ExchangeCompleted(m, duration) ==
    [m EXCEPT !.last_exchange_duration_ms = duration,
              !.successful_exchanges = @ + 1,
              !.avg_rtt_ms = [sum |-> @.sum + duration, n |-> @.n + 1]]

\* The event handle_message sends for a message, if any.
EventOf ==
    [kind \in MessageKinds |->
        CASE kind = "Offer" -> <<"OfferReceived">>
          [] kind = "Answer" -> <<"AnswerReceived">>
          [] kind = "IceCandidate" -> <<"IceCandidateReceived">>
          [] kind = "ConnectionRequest" -> <<"ConnectionRequest">>
          [] kind = "ConnectionResponse" -> <<"ConnectionResponse">>
          [] kind = "Error" -> <<"Error">>
          [] OTHER -> <<>>]

\* handle_message(msg) for a message of tag `kind` from device `from`,
\* received on connection c.
handle_message(c, kind, from, id) ==
    /\ sig_device_id' =
           IF kind = "RegisterResponse" THEN id ELSE sig_device_id
    /\ pending_exchanges' =
           CASE kind = "Offer" ->
                  [pending_exchanges EXCEPT ![from] =
                      [start_time |-> now, opened_by |-> "handle_message"]]
             [] kind = "Answer" ->
                  [pending_exchanges EXCEPT ![from] = NoExchange]
             [] OTHER -> pending_exchanges
    /\ metrics' =
           LET received == [metrics EXCEPT !.messages_received = @ + 1]
           IN  IF kind = "Answer"
                  /\ AnyExchangePending(pending_exchanges, from)
               THEN ExchangeCompleted(
                        received,
                        (now - pending_exchanges[from].start_time) * MsPerSec)
               ELSE received
    /\ registered_devices' =
           IF kind = "ConnectionRequest"
           THEN registered_devices \cup {from}
           ELSE registered_devices
    /\ sig_events' =
           IF EventOf[kind] # <<>>
           THEN Append(sig_events, SigEvent(EventOf[kind][1], c))
           ELSE sig_events

\* The receive loop of connection c takes one text frame.
receive_text(c, kind, from, id) ==
    /\ sig_conns[c].reader = "running"
    /\ metrics.messages_received < MaxReceived
    /\ EventOf[kind] # <<>> => CanSigEmit
    /\ handle_message(c, kind, from, id)
    /\ sig_call' = SigCall("receive", [kind |-> kind, from |-> from], TRUE)
    /\ UNCHANGED <<sig_connected, ws_sender, sig_conns, next_conn>>

\* The receive loop of connection c ends on a Close frame or a transport
\* error: the flag is reset and Disconnected is sent.
receive_close(c) ==
    /\ sig_conns[c].reader = "running"
    /\ CanSigEmit
    /\ sig_conns' = [sig_conns EXCEPT ![c].reader = "ended",
                                      ![c].closed = TRUE]
    /\ sig_connected' = FALSE
    /\ sig_events' = Append(sig_events, SigEvent("Disconnected", c))
    /\ sig_call' = SigCall("receive_close", c, TRUE)
    /\ UNCHANGED <<sig_device_id, ws_sender, next_conn, registered_devices,
                   metrics, pending_exchanges>>

TickSignaling ==
    /\ Tick({1}, MaxSigTicks)
    /\ sig_call' = SigCall("none", 0, TRUE)
    /\ UNCHANGED <<sig_device_id, sig_connected, ws_sender, sig_conns,
                   next_conn, sig_events, registered_devices, metrics,
                   pending_exchanges>>

\* One step of the send loop task of connection c.
send_loop_step(c) ==
    \/ \E ok \in BOOLEAN :
           send_loop_write(c, ok) /\ UNCHANGED clockVars /\ UNCHANGED <<sessVars, keyVars, replayVars, bruteVars, accessVars, authVars, secTaskVars, rtcVars, netVars, capVars, perfVars, certVars>>
    \/ send_loop_exit(c) /\ UNCHANGED clockVars /\ UNCHANGED <<sessVars, keyVars, replayVars, bruteVars, accessVars, authVars, secTaskVars, rtcVars, netVars, capVars, perfVars, certVars>>

NextSignaling ==
    \/ \E ok \in BOOLEAN : connect(ok) /\ UNCHANGED clockVars /\ UNCHANGED <<sessVars, keyVars, replayVars, bruteVars, accessVars, authVars, secTaskVars, rtcVars, netVars, capVars, perfVars, certVars>>
    \/ disconnect /\ UNCHANGED clockVars /\ UNCHANGED <<sessVars, keyVars, replayVars, bruteVars, accessVars, authVars, secTaskVars, rtcVars, netVars, capVars, perfVars, certVars>>
    \/ \E id \in LocalDeviceIds :
           CanQueue /\ sig_register_device(id) /\ UNCHANGED clockVars /\ UNCHANGED <<sessVars, keyVars, replayVars, bruteVars, accessVars, authVars, secTaskVars, rtcVars, netVars, capVars, perfVars, certVars>>
    \/ \E t \in Targets :
           CanQueue /\ send_offer(t) /\ UNCHANGED clockVars /\ UNCHANGED <<sessVars, keyVars, replayVars, bruteVars, accessVars, authVars, secTaskVars, rtcVars, netVars, capVars, perfVars, certVars>>
    \/ \E t \in Targets :
           CanQueue /\ send_answer(t) /\ UNCHANGED clockVars /\ UNCHANGED <<sessVars, keyVars, replayVars, bruteVars, accessVars, authVars, secTaskVars, rtcVars, netVars, capVars, perfVars, certVars>>
    \/ \E c \in ConnIds : send_loop_step(c)
    \/ \E c \in ConnIds, kind \in MessageKinds, from \in Targets,
          id \in LocalDeviceIds :
           receive_text(c, kind, from, id) /\ UNCHANGED clockVars /\ UNCHANGED <<sessVars, keyVars, replayVars, bruteVars, accessVars, authVars, secTaskVars, rtcVars, netVars, capVars, perfVars, certVars>>
    \/ \E c \in ConnIds : receive_close(c) /\ UNCHANGED clockVars /\ UNCHANGED <<sessVars, keyVars, replayVars, bruteVars, accessVars, authVars, secTaskVars, rtcVars, netVars, capVars, perfVars, certVars>>
    \/ TickSignaling /\ UNCHANGED <<sessVars, keyVars, replayVars, bruteVars, accessVars, authVars, secTaskVars, rtcVars, netVars, capVars, perfVars, certVars>>

(***************************************************************************)
(* WebRTC engine (webrtc_engine.rs, webrtc_mock.rs).                       *)
(***************************************************************************)
\* Connection ids are fresh UUIDs; the n-th one handed out is n.  An id not
\* handed out yet is an id the engine does not know.
RtcIds == 1..MaxRtcConnections
NoConnection == "none"
RTCPeerConnectionStates ==
    {"New", "Connecting", "Connected", "Disconnected", "Failed", "Closed"}

RtcCall(op, id, found, ok) == [op |-> op, id |-> id, found |-> found, ok |-> ok]

\* WebRTCEngine::new
InitWebRTC ==
    /\ connections = [id \in RtcIds |-> NoConnection]
    /\ next_connection_id = 1
    /\ rtc_call = RtcCall("none", 0, FALSE, TRUE)

create_peer_connection ==
    /\ next_connection_id \in RtcIds
    /\ connections' = [connections EXCEPT ![next_connection_id] = "New"]
    /\ next_connection_id' = next_connection_id + 1
    /\ rtc_call' = RtcCall("create_peer_connection", next_connection_id,
                           FALSE, TRUE)

\* The state-change callback of connection id: the stored state is updated
\* if the connection is still stored.
on_peer_connection_state_change(id, state) ==
    /\ id < next_connection_id
    /\ connections' =
           IF connections[id] # NoConnection
           THEN [connections EXCEPT ![id] = state]
           ELSE connections
    /\ rtc_call' = RtcCall("on_peer_connection_state_change", id,
                           connections[id] # NoConnection, TRUE)
    /\ UNCHANGED next_connection_id

\* connections.remove(connection_id); MarkClosed keeps the entry and marks
\* it Closed.
MarkClosed(conns, id) ==
    IF conns[id] # NoConnection THEN [conns EXCEPT ![id] = "Closed"] ELSE conns
RemoveConnection(conns, id) == [conns EXCEPT ![id] = NoConnection]

\* close_connection: the entry is removed first; if there was one, the
\* peer connection is closed and a failure of that close is returned.
close_connection(id, closed_ok) ==
    /\ connections[id] = NoConnection => closed_ok
    /\ connections' = RemoveConnection(connections, id)
    /\ rtc_call' = RtcCall("close_connection", id,
                           connections[id] # NoConnection, closed_ok)
    /\ UNCHANGED next_connection_id

\* get_connection_state: None (NoConnection) for an id that is not stored.
ConnectionStateIn(conns, id) == conns[id]
get_connection_state(id) ==
    /\ rtc_call' = RtcCall("get_connection_state", id,
                           connections[id] # NoConnection, TRUE)
    /\ UNCHANGED <<connections, next_connection_id>>

NextWebRTC ==
    \/ create_peer_connection /\ UNCHANGED <<clockVars, sessVars, keyVars, replayVars, bruteVars, accessVars, authVars, secTaskVars, sigVars, netVars, capVars, perfVars, certVars>>
    \/ \E id \in RtcIds, state \in RTCPeerConnectionStates :
           on_peer_connection_state_change(id, state) /\ UNCHANGED <<clockVars, sessVars, keyVars, replayVars, bruteVars, accessVars, authVars, secTaskVars, sigVars, netVars, capVars, perfVars, certVars>>
    \/ \E id \in RtcIds, closed_ok \in BOOLEAN :
           close_connection(id, closed_ok) /\ UNCHANGED <<clockVars, sessVars, keyVars, replayVars, bruteVars, accessVars, authVars, secTaskVars, sigVars, netVars, capVars, perfVars, certVars>>
    \/ \E id \in RtcIds : get_connection_state(id) /\ UNCHANGED <<clockVars, sessVars, keyVars, replayVars, bruteVars, accessVars, authVars, secTaskVars, sigVars, netVars, capVars, perfVars, certVars>>

(***************************************************************************)
(* Network manager (network.rs).                                           *)
(***************************************************************************)
NetworkProtocols == {"IPv4", "IPv6"}
DefaultStunServers == 2
StunCounts == 0..(DefaultStunServers + MaxAddedServers)
TurnCounts == 0..MaxAddedServers

\* Result<ConnectionType>
OkKind(kind) == [ok |-> TRUE, kind |-> kind]
ErrKind == [ok |-> FALSE, kind |-> "Unknown"]

try_ipv6_connection == OkKind("Direct")
try_ipv4_connection == OkKind("Direct")
\* Every binding or allocation request succeeds, so the first server of a
\* list that is not empty answers.
attempt_stun_connection(servers) ==
    IF servers > 0 THEN OkKind("StunDirect") ELSE OkKind("Unknown")
attempt_turn_connection(servers) ==
    IF servers = 0 THEN ErrKind ELSE OkKind("TurnRelay")

\* `Ok(conn_type) if conn_type != ConnectionType::Unknown`
Accepted(r) == r.ok /\ r.kind # "Unknown"

\* The attempts establish_connection makes, in order; the last one is the
\* TURN relay.
Attempts(preferred, ipv6, ipv4, stun, turn) ==
    (IF preferred = "IPv6" /\ ipv6 THEN <<try_ipv6_connection>> ELSE <<>>)
    \o (IF ipv4 THEN <<try_ipv4_connection>> ELSE <<>>)
    \o <<attempt_stun_connection(stun), attempt_turn_connection(turn)>>

\* The first accepted attempt is returned; if none before the last is
\* accepted the result of the last is returned as it is.  LastAttempt
\* always falls through to the last one.
LastAttempt(attempts) == attempts[Len(attempts)]
FirstAccepted(attempts) ==
    LET early == {i \in 1..(Len(attempts) - 1) : Accepted(attempts[i])}
    IN  IF early = {} THEN attempts[Len(attempts)]
        ELSE attempts[CHOOSE i \in early : \A j \in early : i <= j]

NetCall(op, arg, result) == [op |-> op, arg |-> arg, result |-> result]

\* The part of the manager the sampler does not touch.
UnchangedConfig ==
    UNCHANGED <<preferred_protocol, ipv6_available, ipv4_available,
                stun_servers, turn_servers>>
UnchangedSampler ==
    UNCHANGED <<is_monitoring, starting, samplers, iterations, current_stats,
                stats_history, produced, net_emitted>>
UnchangedQuality == UNCHANGED <<quality_in, quality_out>>

initialize ==
    /\ ipv6_available' = TRUE
    /\ ipv4_available' = TRUE
    /\ net_call' = NetCall("initialize", 0, OkKind("Unknown"))
    /\ UNCHANGED <<preferred_protocol, stun_servers, turn_servers>>
    /\ UnchangedSampler /\ UnchangedQuality

set_preferred_protocol(protocol) ==
    /\ preferred_protocol' = protocol
    /\ net_call' = NetCall("set_preferred_protocol", 0, OkKind("Unknown"))
    /\ UNCHANGED <<ipv6_available, ipv4_available, stun_servers,
                   turn_servers>>
    /\ UnchangedSampler /\ UnchangedQuality

add_stun_server ==
    /\ stun_servers + 1 \in StunCounts
    /\ stun_servers' = stun_servers + 1
    /\ net_call' = NetCall("add_stun_server", 0, OkKind("Unknown"))
    /\ UNCHANGED <<preferred_protocol, ipv6_available, ipv4_available,
                   turn_servers>>
    /\ UnchangedSampler /\ UnchangedQuality

add_turn_server ==
    /\ turn_servers + 1 \in TurnCounts
    /\ turn_servers' = turn_servers + 1
    /\ net_call' = NetCall("add_turn_server", 0, OkKind("Unknown"))
    /\ UNCHANGED <<preferred_protocol, ipv6_available, ipv4_available,
                   stun_servers>>
    /\ UnchangedSampler /\ UnchangedQuality

establish_connection ==
    /\ net_call' =
           NetCall("establish_connection", 0,
                   FirstAccepted(Attempts(preferred_protocol, ipv6_available,
                                          ipv4_available, stun_servers,
                                          turn_servers)))
    /\ UnchangedConfig /\ UnchangedSampler /\ UnchangedQuality

NextEstablish ==
    \/ initialize /\ UNCHANGED <<clockVars, sessVars, keyVars, replayVars, bruteVars, accessVars, authVars, secTaskVars, sigVars, rtcVars, capVars, perfVars, certVars>>
    \/ \E protocol \in NetworkProtocols : set_preferred_protocol(protocol) /\ UNCHANGED <<clockVars, sessVars, keyVars, replayVars, bruteVars, accessVars, authVars, secTaskVars, sigVars, rtcVars, capVars, perfVars, certVars>>
    \/ add_stun_server /\ UNCHANGED <<clockVars, sessVars, keyVars, replayVars, bruteVars, accessVars, authVars, secTaskVars, sigVars, rtcVars, capVars, perfVars, certVars>>
    \/ add_turn_server /\ UNCHANGED <<clockVars, sessVars, keyVars, replayVars, bruteVars, accessVars, authVars, secTaskVars, sigVars, rtcVars, capVars, perfVars, certVars>>
    \/ establish_connection /\ UNCHANGED <<clockVars, sessVars, keyVars, replayVars, bruteVars, accessVars, authVars, secTaskVars, sigVars, rtcVars, capVars, perfVars, certVars>>

\* calculate_quality; packet_loss is in tenths of a percent.
calculate_qualityInclusive(stats) ==
    IF stats.rtt <= 50 /\ stats.packet_loss < 10 THEN "Excellent"
    ELSE IF stats.rtt < 100 /\ stats.packet_loss < 30 THEN "Good"
    ELSE IF stats.rtt < 200 /\ stats.packet_loss < 50 THEN "Fair"
    ELSE "Poor"
calculate_quality(stats) ==
    IF stats.rtt < 50 /\ stats.packet_loss < 10 THEN "Excellent"
    ELSE IF stats.rtt < 100 /\ stats.packet_loss < 30 THEN "Good"
    ELSE IF stats.rtt < 200 /\ stats.packet_loss < 50 THEN "Fair"
    ELSE "Poor"

Stats(rtt, packet_loss) == [rtt |-> rtt, packet_loss |-> packet_loss]
DefaultNetworkStats == Stats(0, 0)
measure_stats_internal == Stats(50, 5)
\* What a measurement may return once it measures: the sample of
\* measure_stats_internal and one sample of each worse quality.
MeasuredStats == {measure_stats_internal, Stats(150, 40), Stats(250, 60)}
StatsInputs == {Stats(rtt, loss) : rtt \in 0..MaxRtt, loss \in 0..MaxLossTenths}

\* A call of calculate_quality on stats of the caller.
calculate_quality_call(stats) ==
    /\ quality_in' = stats
    /\ quality_out' = calculate_quality(stats)
    /\ net_call' = NetCall("calculate_quality", 0, OkKind("Unknown"))
    /\ UnchangedConfig /\ UnchangedSampler

NextQualityRule ==
    calculate_quality_call(quality_in) /\ UNCHANGED <<clockVars, sessVars, keyVars, replayVars, bruteVars, accessVars, authVars, secTaskVars, sigVars, rtcVars, capVars, perfVars, certVars>>

(***************************************************************************)
(* The sampler loop of start_monitoring.                                   *)
(***************************************************************************)
SamplerIds == 1..MaxSamplers
\* The places of the tasks that concurrent start_monitoring calls spawn.
MonitorIds == 1..(MaxSamplers + 1)
history_capacity == 60
IdleSampler ==
    [pc |-> "idle", last_quality |-> "Unknown", stats |-> DefaultNetworkStats,
     previous |-> <<>>]
NetEvent(kind, quality, stats) ==
    [kind |-> kind, quality |-> quality, stats |-> stats]

\* NetworkManager::new
InitNetworkManager ==
    /\ preferred_protocol = "IPv6"
    /\ ipv6_available = FALSE
    /\ ipv4_available = TRUE
    /\ stun_servers = DefaultStunServers
    /\ turn_servers = 0
    /\ net_call = NetCall("none", 0, OkKind("Unknown"))
    /\ is_monitoring = FALSE
    /\ starting = 0
    /\ samplers = [k \in MonitorIds |-> IdleSampler]
    /\ iterations = 0
    /\ current_stats = DefaultNetworkStats
    /\ stats_history = <<>>
    /\ produced = 0
    /\ net_emitted = <<>>
InitNetwork ==
    /\ InitNetworkManager
    /\ quality_in = DefaultNetworkStats
    /\ quality_out = "Unknown"

\* start_monitoring returns at once while monitoring; otherwise it sets the
\* flag and spawns a loop, which takes the first free place among `ids`.
start_monitoring(ids) ==
    /\ IF is_monitoring
       THEN UNCHANGED <<is_monitoring, samplers>>
       ELSE /\ \E k \in ids : samplers[k].pc \in {"idle", "done"}
            /\ is_monitoring' = TRUE
            /\ LET k == CHOOSE k \in ids :
                            /\ samplers[k].pc \in {"idle", "done"}
                            /\ \A j \in ids :
                                   samplers[j].pc \in {"idle", "done"}
                                     => k <= j
               IN  samplers' = [samplers EXCEPT ![k] =
                                   [IdleSampler EXCEPT !.pc = "test"]]
    /\ net_call' = NetCall("start_monitoring", 0, OkKind("Unknown"))
    /\ UNCHANGED <<iterations, current_stats, stats_history, produced,
                   net_emitted>>
    /\ UnchangedConfig /\ UnchangedQuality /\ UNCHANGED starting

stop_monitoring ==
    /\ is_monitoring' = FALSE
    /\ net_call' = NetCall("stop_monitoring", 0, OkKind("Unknown"))
    /\ UNCHANGED <<samplers, iterations, current_stats, stats_history,
                   produced, net_emitted>>
    /\ UnchangedConfig /\ UnchangedQuality /\ UNCHANGED starting

\* `while *is_monitoring.read().await`: the flag as the loop reads it.
\* FlagIgnored never leaves the loop.
FlagIgnored(flag) == TRUE
FlagRead(flag) == flag

\* The head of the loop: one more iteration, or the end of the task.
sampler_test(k, limit) ==
    /\ samplers[k].pc = "test"
    /\ FlagRead(is_monitoring) => iterations < limit
    /\ IF FlagRead(is_monitoring)
       THEN /\ samplers' = [samplers EXCEPT ![k].pc = "measure"]
            /\ iterations' = iterations + 1
       ELSE /\ samplers' = [samplers EXCEPT ![k].pc = "done"]
            /\ UNCHANGED iterations
    /\ net_call' = NetCall("sampler_test", k, OkKind("Unknown"))
    /\ UNCHANGED <<is_monitoring, current_stats, stats_history, produced,
                   net_emitted>>
    /\ UnchangedConfig /\ UnchangedQuality /\ UNCHANGED starting

\* The sample is measured and written to current_stats.
sampler_measure(k, stats) ==
    /\ samplers[k].pc = "measure"
    /\ samplers' = [samplers EXCEPT ![k].pc = "push", ![k].stats = stats]
    /\ current_stats' = stats
    /\ net_call' = NetCall("sampler_measure", k, OkKind("Unknown"))
    /\ UNCHANGED <<is_monitoring, iterations, stats_history, produced,
                   net_emitted>>
    /\ UnchangedConfig /\ UnchangedQuality /\ UNCHANGED starting

\* history.push(stats); if history.len() > 60 { history.remove(0) }
\* HistoryPushKeepOldest drops the sample just pushed instead.
HistoryPushKeepOldest(history, sample) ==
    LET pushed == Append(history, sample)
    IN  IF Len(pushed) > history_capacity
        THEN SubSeq(pushed, 1, Len(pushed) - 1) ELSE pushed
HistoryPush(history, sample) ==
    LET pushed == Append(history, sample)
    IN  IF Len(pushed) > history_capacity THEN Tail(pushed) ELSE pushed

\* The push and the eviction happen under one lock of the history.
sampler_push(k) ==
    /\ samplers[k].pc = "push"
    /\ produced' = produced + 1
    /\ stats_history' =
           HistoryPush(stats_history,
                       [stats |-> samplers[k].stats, number |-> produced + 1])
    /\ samplers' = [samplers EXCEPT ![k].pc = "emit"]
    /\ net_call' = NetCall("sampler_push", k, OkKind("Unknown"))
    /\ UNCHANGED <<is_monitoring, iterations, current_stats, net_emitted>>
    /\ UnchangedConfig /\ UnchangedQuality /\ UNCHANGED starting

\* `last_quality = quality` after a change was reported; LastQualityKept
\* forgets the assignment.
LastQualityKept(last_quality, quality) == last_quality
LastQualityAfter(last_quality, quality) == quality

\* The events of one iteration, and the sleep that ends it.
sampler_emit(k) ==
    /\ samplers[k].pc = "emit"
    /\ LET stats == samplers[k].stats
           quality == calculate_quality(stats)
           changed == quality # samplers[k].last_quality
       IN  /\ net_emitted' =
                  (IF changed
                   THEN <<NetEvent("QualityChanged", quality, stats)>>
                   ELSE <<>>)
                  \o (IF changed /\ quality = "Poor"
                      THEN <<NetEvent("QualityWarning", quality, stats)>>
                      ELSE <<>>)
                  \o <<NetEvent("StatsUpdated", quality, stats)>>
           /\ samplers' =
                  [samplers EXCEPT
                      ![k].pc = "test",
                      ![k].last_quality =
                          IF changed THEN LastQualityAfter(@, quality) ELSE @,
                      ![k].previous = <<stats>>]
    /\ net_call' = NetCall("sampler_emit", k, OkKind("Unknown"))
    /\ UNCHANGED <<is_monitoring, iterations, current_stats, stats_history,
                   produced>>
    /\ UnchangedConfig /\ UnchangedQuality /\ UNCHANGED starting

\* One step of sampler k, measuring one of `measured`.
sampler_step(k, limit, measured) ==
    \/ sampler_test(k, limit) /\ UNCHANGED <<clockVars, sessVars, keyVars, replayVars, bruteVars, accessVars, authVars, secTaskVars, sigVars, rtcVars, capVars, perfVars, certVars>>
    \/ \E stats \in measured : sampler_measure(k, stats) /\ UNCHANGED <<clockVars, sessVars, keyVars, replayVars, bruteVars, accessVars, authVars, secTaskVars, sigVars, rtcVars, capVars, perfVars, certVars>>
    \/ sampler_push(k) /\ UNCHANGED <<clockVars, sessVars, keyVars, replayVars, bruteVars, accessVars, authVars, secTaskVars, sigVars, rtcVars, capVars, perfVars, certVars>>
    \/ sampler_emit(k) /\ UNCHANGED <<clockVars, sessVars, keyVars, replayVars, bruteVars, accessVars, authVars, secTaskVars, sigVars, rtcVars, capVars, perfVars, certVars>>

\* The sampler as the source has it: every measurement is the sample of
\* measure_stats_internal.
NextSampler ==
    \/ start_monitoring(SamplerIds) /\ UNCHANGED <<clockVars, sessVars, keyVars, replayVars, bruteVars, accessVars, authVars, secTaskVars, sigVars, rtcVars, capVars, perfVars, certVars>>
    \/ stop_monitoring /\ UNCHANGED <<clockVars, sessVars, keyVars, replayVars, bruteVars, accessVars, authVars, secTaskVars, sigVars, rtcVars, capVars, perfVars, certVars>>
    \/ \E k \in SamplerIds :
           sampler_step(k, MaxSamples, {measure_stats_internal})

\* The sampler with measurements of changing quality.
NextQuality ==
    \/ start_monitoring(SamplerIds) /\ UNCHANGED <<clockVars, sessVars, keyVars, replayVars, bruteVars, accessVars, authVars, secTaskVars, sigVars, rtcVars, capVars, perfVars, certVars>>
    \/ stop_monitoring /\ UNCHANGED <<clockVars, sessVars, keyVars, replayVars, bruteVars, accessVars, authVars, secTaskVars, sigVars, rtcVars, capVars, perfVars, certVars>>
    \/ \E k \in SamplerIds : sampler_step(k, MaxQualitySamples, MeasuredStats)

(***************************************************************************)
(* Screen capturer (screen_capture.rs).                                    *)
(***************************************************************************)
CaptureLoopIds == 1..MaxCaptureLoops
NoFrameSender == 0
Options(frame_rate, bitrate) == [frame_rate |-> frame_rate, bitrate |-> bitrate, width |-> 1920, height |-> 1080]
DefaultCaptureOptions == Options(30, 4000)
DefaultAdaptiveBitrateConfig ==
    [min_bitrate |-> 500, max_bitrate |-> 8000, target_bitrate |-> 4000,
     min_frame_rate |-> 15, max_frame_rate |-> 60, target_frame_rate |-> 30]
\* The configurations set_adaptive_config is called with: the default and
\* a narrower one.
AdaptiveConfigs ==
    {DefaultAdaptiveBitrateConfig,
     [min_bitrate |-> 4100, max_bitrate |-> 6000, target_bitrate |-> 5000,
      min_frame_rate |-> 20, max_frame_rate |-> 24, target_frame_rate |-> 30]}
\* The options start_capture is called with.
CaptureOptionChoices == {DefaultCaptureOptions, Options(60, 8000)}
\* NetworkConditions; packet_loss is in tenths of a percent.  The
\* bandwidths are multiples of 5, for which the f32 product with 0.8 is the
\* exact integer.
NetworkConditionChoices ==
    {[available_bandwidth |-> bandwidth, packet_loss |-> loss, rtt |-> rtt] :
        bandwidth \in {500, 4800, 5000, 20000}, loss \in {0, 30, 60},
        rtt \in {50, 120, 200}}
Bitrates == {400, 4000, 8100}
FrameRates == {10, 30, 90}
QualityPresets == {"Low", "Balanced", "High", "Ultra"}
\* The resolutions set_resolution is called with.
Resolutions == {<<640, 480>>, <<1920, 1080>>, <<3840, 2160>>}

CapCall(op, arg) == [op |-> op, arg |-> arg]

\* ScreenCapturer::new
InitCapture ==
    /\ capture_options = DefaultCaptureOptions
    /\ adaptive_config = DefaultAdaptiveBitrateConfig
    /\ is_capturing = FALSE
    /\ capture_loops = [k \in CaptureLoopIds |-> "idle"]
    /\ frame_sender = NoFrameSender
    /\ frame_counter = 0
    /\ frames_begun = 0
    /\ cap_call = CapCall("none", 0)

UnchangedCaptureLoop ==
    UNCHANGED <<is_capturing, capture_loops, frame_sender, frame_counter,
                frames_begun>>

\* u32::clamp(min, max)
Clamp(x, min, max) == IF x < min THEN min ELSE IF x > max THEN max ELSE x
Abs(x) == IF x < 0 THEN -x ELSE x

set_frame_rate(fps) ==
    /\ capture_options' = [capture_options EXCEPT !.frame_rate = Clamp(fps, 15, 60)]
    /\ cap_call' = CapCall("set_frame_rate", fps)
    /\ UNCHANGED adaptive_config
    /\ UnchangedCaptureLoop

set_bitrate(bitrate) ==
    /\ capture_options' = [capture_options EXCEPT !.bitrate = bitrate]
    /\ cap_call' = CapCall("set_bitrate", bitrate)
    /\ UNCHANGED adaptive_config
    /\ UnchangedCaptureLoop

set_resolution(width, height) ==
    /\ capture_options' = [capture_options EXCEPT !.width = width, !.height = height]
    /\ cap_call' = CapCall("set_resolution", <<width, height>>)
    /\ UNCHANGED adaptive_config
    /\ UnchangedCaptureLoop

\* The options a preset leaves: Ultra keeps the resolution it finds.
PresetOptions(options, preset) ==
    CASE preset = "Low" ->
           [options EXCEPT !.width = 1280, !.height = 720,
                           !.frame_rate = 15, !.bitrate = 1000]
      [] preset = "Balanced" ->
           [options EXCEPT !.width = 1920, !.height = 1080,
                           !.frame_rate = 30, !.bitrate = 4000]
      [] preset = "High" ->
           [options EXCEPT !.width = 1920, !.height = 1080,
                           !.frame_rate = 60, !.bitrate = 8000]
      [] preset = "Ultra" ->
           [options EXCEPT !.frame_rate = 60, !.bitrate = 15000]

apply_quality_preset(preset) ==
    /\ capture_options' = PresetOptions(capture_options, preset)
    /\ cap_call' = CapCall("apply_quality_preset", preset)
    /\ UNCHANGED adaptive_config
    /\ UnchangedCaptureLoop

set_adaptive_config(new_config) ==
    /\ adaptive_config' = new_config
    /\ cap_call' = CapCall("set_adaptive_config", new_config)
    /\ UNCHANGED capture_options
    /\ UnchangedCaptureLoop

\* (target_frame_rate as f32 * frame_rate_factor) as u32, the factor in
\* hundredths.
frame_rate_factor(conditions) ==
    IF conditions.packet_loss > 50 \/ conditions.rtt > 150 THEN 70
    ELSE IF conditions.packet_loss > 20 \/ conditions.rtt > 100 THEN 85
    ELSE 100

AdaptedOptions(options, cfg, conditions) ==
    LET target_bitrate == (conditions.available_bandwidth * 8) \div 10
        new_bitrate == Clamp(target_bitrate, cfg.min_bitrate, cfg.max_bitrate)
        new_frame_rate ==
            Clamp((cfg.target_frame_rate * frame_rate_factor(conditions))
                      \div 100,
                  cfg.min_frame_rate, cfg.max_frame_rate)
    IN  [options EXCEPT
             !.bitrate = IF Abs(options.bitrate - new_bitrate) > 200
                         THEN new_bitrate ELSE options.bitrate,
             !.frame_rate = new_frame_rate]

adapt_to_network_conditions(conditions) ==
    /\ capture_options' =
           AdaptedOptions(capture_options, adaptive_config, conditions)
    /\ cap_call' = CapCall("adapt_to_network_conditions", conditions)
    /\ UNCHANGED adaptive_config
    /\ UnchangedCaptureLoop

NextAdapt ==
    \/ \E fps \in FrameRates : set_frame_rate(fps) /\ UNCHANGED <<clockVars, sessVars, keyVars, replayVars, bruteVars, accessVars, authVars, secTaskVars, sigVars, rtcVars, netVars, perfVars, certVars>>
    \/ \E resolution \in Resolutions : set_resolution(resolution[1], resolution[2]) /\ UNCHANGED <<clockVars, sessVars, keyVars, replayVars, bruteVars, accessVars, authVars, secTaskVars, sigVars, rtcVars, netVars, perfVars, certVars>>
    \/ \E bitrate \in Bitrates : set_bitrate(bitrate) /\ UNCHANGED <<clockVars, sessVars, keyVars, replayVars, bruteVars, accessVars, authVars, secTaskVars, sigVars, rtcVars, netVars, perfVars, certVars>>
    \/ \E preset \in QualityPresets : apply_quality_preset(preset) /\ UNCHANGED <<clockVars, sessVars, keyVars, replayVars, bruteVars, accessVars, authVars, secTaskVars, sigVars, rtcVars, netVars, perfVars, certVars>>
    \/ \E new_config \in AdaptiveConfigs : set_adaptive_config(new_config) /\ UNCHANGED <<clockVars, sessVars, keyVars, replayVars, bruteVars, accessVars, authVars, secTaskVars, sigVars, rtcVars, netVars, perfVars, certVars>>
    \/ \E conditions \in NetworkConditionChoices :
           adapt_to_network_conditions(conditions) /\ UNCHANGED <<clockVars, sessVars, keyVars, replayVars, bruteVars, accessVars, authVars, secTaskVars, sigVars, rtcVars, netVars, perfVars, certVars>>

\* start_capture stores the options and the sender, sets the flag and
\* spawns a capture loop, whether or not one is running.
start_capture(options) ==
    /\ \E k \in CaptureLoopIds : capture_loops[k] \in {"idle", "done"}
    /\ LET k == CHOOSE k \in CaptureLoopIds :
                    /\ capture_loops[k] \in {"idle", "done"}
                    /\ \A j \in CaptureLoopIds :
                           capture_loops[j] \in {"idle", "done"} => k <= j
       IN  /\ capture_loops' = [capture_loops EXCEPT ![k] = "test"]
           /\ frame_sender' = k
    /\ capture_options' = options
    /\ is_capturing' = TRUE
    /\ cap_call' = CapCall("start_capture", options)
    /\ UNCHANGED <<adaptive_config, frame_counter, frames_begun>>

stop_capture ==
    /\ is_capturing' = FALSE
    /\ frame_sender' = NoFrameSender
    /\ cap_call' = CapCall("stop_capture", 0)
    /\ UNCHANGED <<capture_options, adaptive_config, capture_loops,
                   frame_counter, frames_begun>>

\* `while *is_capturing.read().await`: one more frame, or the end of the
\* task.
capture_test(k, limit) ==
    /\ capture_loops[k] = "test"
    /\ is_capturing => frames_begun < limit
    /\ IF is_capturing
       THEN /\ capture_loops' = [capture_loops EXCEPT ![k] = "frame"]
            /\ frames_begun' = frames_begun + 1
       ELSE /\ capture_loops' = [capture_loops EXCEPT ![k] = "done"]
            /\ UNCHANGED frames_begun
    /\ cap_call' = CapCall("capture_test", k)
    /\ UNCHANGED <<capture_options, adaptive_config, is_capturing,
                   frame_sender, frame_counter>>

\* The frame is numbered and sent on the loop's own copy of the sender;
\* then the loop sleeps for the frame interval.
capture_frame(k) ==
    /\ capture_loops[k] = "frame"
    /\ frame_counter' = frame_counter + 1
    /\ capture_loops' = [capture_loops EXCEPT ![k] = "test"]
    /\ cap_call' = CapCall("capture_frame", k)
    /\ UNCHANGED <<capture_options, adaptive_config, is_capturing,
                   frame_sender, frames_begun>>

capture_step(k, limit) ==
    \/ capture_test(k, limit) /\ UNCHANGED <<clockVars, sessVars, keyVars, replayVars, bruteVars, accessVars, authVars, secTaskVars, sigVars, rtcVars, netVars, perfVars, certVars>>
    \/ capture_frame(k) /\ UNCHANGED <<clockVars, sessVars, keyVars, replayVars, bruteVars, accessVars, authVars, secTaskVars, sigVars, rtcVars, netVars, perfVars, certVars>>

\* The two background loops and the calls that start and stop them; the
\* sampler that runs beside the capture loops takes the first place.
LoopSamplerIds == {k \in SamplerIds : \A j \in SamplerIds : k <= j}
NextLoops ==
    \/ start_monitoring(LoopSamplerIds) /\ UNCHANGED <<clockVars, sessVars, keyVars, replayVars, bruteVars, accessVars, authVars, secTaskVars, sigVars, rtcVars, capVars, perfVars, certVars>>
    \/ stop_monitoring /\ UNCHANGED <<clockVars, sessVars, keyVars, replayVars, bruteVars, accessVars, authVars, secTaskVars, sigVars, rtcVars, capVars, perfVars, certVars>>
    \/ \E k \in LoopSamplerIds :
           sampler_step(k, MaxLoopIterations, {measure_stats_internal})
    \/ \E options \in CaptureOptionChoices : start_capture(options) /\ UNCHANGED <<clockVars, sessVars, keyVars, replayVars, bruteVars, accessVars, authVars, secTaskVars, sigVars, rtcVars, netVars, perfVars, certVars>>
    \/ stop_capture /\ UNCHANGED <<clockVars, sessVars, keyVars, replayVars, bruteVars, accessVars, authVars, secTaskVars, sigVars, rtcVars, netVars, perfVars, certVars>>
    \/ \E k \in CaptureLoopIds : capture_step(k, MaxLoopIterations)

(***************************************************************************)
(* The session-key operations as concurrent tasks run them: every          *)
(* `.write().await` is a point at which other tasks run.  A guard that is  *)
(* a temporary is dropped at the end of its statement; only                *)
(* rotate_session_key keeps one guard while it waits for another.          *)
(***************************************************************************)
\* The locks rotate_session_key takes, in the order it takes them.
RotateLocksInverse == <<"old_session_keys", "session_keys">>
RotateLocks == <<"session_keys", "old_session_keys">>

\* The write guards a task keeps between two of its steps.
Holds(p) == IF sec_pc[p] = "rotate_old" THEN {RotateLocks[1]} ELSE {}

\* The lock the next step of a task in the middle of an operation takes.
Wants(p) ==
    CASE sec_pc[p] = "generate_replay" -> "replay_detection"
      [] sec_pc[p] = "rotate_old" -> RotateLocks[2]
      [] sec_pc[p] = "remove_replay" -> "replay_detection"
      [] sec_pc[p] = "remove_old" -> "old_session_keys"

\* write() is granted when no other task holds a guard of the lock.
LockFree(p, lock) == \A q \in Tasks \ {p} : lock \notin Holds(q)

KeyTask(s) == [sid |-> s]

\* generate_session_key up to session_keys.write().await.insert(..)
generate_insert_key(p, s) ==
    /\ sec_pc[p] = "idle"
    /\ next_key <= MaxKeys
    /\ LockFree(p, "session_keys")
    /\ session_keys' =
           [session_keys EXCEPT ![s] =
               [key |-> next_key,
                created_at |-> now,
                rotation_count |-> InitialRotationCount(@),
                last_rotated_at |-> now,
                max_age_secs |-> key_rotation_config.rotation_interval_secs,
                auto_rotate |-> key_rotation_config.auto_rotate]]
    /\ next_key' = next_key + 1
    /\ sec_pc' = [sec_pc EXCEPT ![p] = "generate_replay"]
    /\ sec_arg' = [sec_arg EXCEPT ![p] = KeyTask(s)]
    /\ sec_call' = SecCall("insert_key", s, 0, TRUE, next_key)
    /\ UNCHANGED <<config, key_rotation_config, old_session_keys, envelopes,
                   replayVars>>

\* ... and its replay_detection.write().await.insert(..), after which it
\* returns.
generate_insert_replay(p) ==
    /\ sec_pc[p] = "generate_replay"
    /\ LockFree(p, "replay_detection")
    /\ replay_detection' =
           [replay_detection EXCEPT ![sec_arg[p].sid] = DefaultReplayDetectionState]
    /\ first_presented' =
           [first_presented EXCEPT ![sec_arg[p].sid] = NeverPresented]
    /\ sec_pc' = [sec_pc EXCEPT ![p] = "idle"]
    /\ sec_arg' = [sec_arg EXCEPT ![p] = NoSecArg]
    /\ sec_call' = SecCall("generate", sec_arg[p].sid, 0, TRUE, 0)
    /\ UNCHANGED <<config, key_rotation_config, session_keys,
                   old_session_keys, next_key, envelopes,
                   threat_detection_config>>

\* rotate_session_key up to its first guard: without a key it returns Err.
rotate_lock_keys(p, s) ==
    /\ sec_pc[p] = "idle"
    /\ LockFree(p, RotateLocks[1])
    /\ IF session_keys[s] # NoKey
       THEN /\ next_key <= MaxKeys
            /\ sec_pc' = [sec_pc EXCEPT ![p] = "rotate_old"]
            /\ sec_arg' = [sec_arg EXCEPT ![p] = KeyTask(s)]
            /\ sec_call' = SecCall("lock_keys", s, 0, TRUE, 0)
       ELSE /\ sec_call' = SecCall("rotate", s, 0, FALSE, {})
            /\ UNCHANGED <<sec_pc, sec_arg>>
    /\ UNCHANGED <<config, key_rotation_config, session_keys,
                   old_session_keys, next_key, envelopes, replayVars>>

\* ... and the rest of it, from its second guard to the drop of both.
rotate_push_old(p) ==
    /\ sec_pc[p] = "rotate_old"
    /\ LockFree(p, RotateLocks[2])
    /\ next_key <= MaxKeys
    /\ old_session_keys' =
           [old_session_keys EXCEPT
               ![sec_arg[p].sid] = Append(@, OldKeyEntry(session_keys[sec_arg[p].sid]))]
    /\ session_keys' =
           [session_keys EXCEPT ![sec_arg[p].sid] = RotatedKey(@, next_key)]
    /\ next_key' = next_key + 1
    /\ sec_pc' = [sec_pc EXCEPT ![p] = "idle"]
    /\ sec_arg' = [sec_arg EXCEPT ![p] = NoSecArg]
    /\ sec_call' = SecCall("rotate", sec_arg[p].sid, 0, TRUE, {sec_arg[p].sid})
    /\ UNCHANGED <<config, key_rotation_config, envelopes, replayVars>>

\* The three statements of remove_session_key.
remove_key(p, s) ==
    /\ sec_pc[p] = "idle"
    /\ LockFree(p, "session_keys")
    /\ session_keys' = [session_keys EXCEPT ![s] = NoKey]
    /\ sec_pc' = [sec_pc EXCEPT ![p] = "remove_replay"]
    /\ sec_arg' = [sec_arg EXCEPT ![p] = KeyTask(s)]
    /\ sec_call' = SecCall("remove_key", s, 0, TRUE, 0)
    /\ UNCHANGED <<config, key_rotation_config, old_session_keys, next_key,
                   envelopes, replayVars>>

remove_replay(p) ==
    /\ sec_pc[p] = "remove_replay"
    /\ LockFree(p, "replay_detection")
    /\ replay_detection' =
           [replay_detection EXCEPT ![sec_arg[p].sid] = NoState]
    /\ first_presented' =
           [first_presented EXCEPT ![sec_arg[p].sid] = NeverPresented]
    /\ sec_pc' = [sec_pc EXCEPT ![p] = "remove_old"]
    /\ sec_call' = SecCall("remove_replay", sec_arg[p].sid, 0, TRUE, 0)
    /\ UNCHANGED <<config, key_rotation_config, session_keys,
                   old_session_keys, next_key, envelopes,
                   threat_detection_config, sec_arg>>

remove_old(p) ==
    /\ sec_pc[p] = "remove_old"
    /\ LockFree(p, "old_session_keys")
    /\ old_session_keys' = [old_session_keys EXCEPT ![sec_arg[p].sid] = <<>>]
    /\ sec_pc' = [sec_pc EXCEPT ![p] = "idle"]
    /\ sec_arg' = [sec_arg EXCEPT ![p] = NoSecArg]
    /\ sec_call' = SecCall("remove", sec_arg[p].sid, 0, TRUE, 0)
    /\ UNCHANGED <<config, key_rotation_config, session_keys, next_key,
                   envelopes, replayVars>>

\* detect_replay_attack takes one guard and keeps it to its end.
detect_replay_attack_task(s, nonce) ==
    /\ \A q \in Tasks : "replay_detection" \notin Holds(q)
    /\ detect_replay_attack(s, nonce)
    /\ UNCHANGED secTaskVars

KeyTaskNonces == {n \in Nonces : \A m \in Nonces : n <= m}

NextKeyTasks ==
    \/ \E p \in Tasks, s \in CipherSessionIds :
           generate_insert_key(p, s) /\ UNCHANGED <<clockVars, sessVars, bruteVars, accessVars, authVars, sigVars, rtcVars, netVars, capVars, perfVars, certVars>>
    \/ \E p \in Tasks :
           generate_insert_replay(p) /\ UNCHANGED <<clockVars, sessVars, bruteVars, accessVars, authVars, sigVars, rtcVars, netVars, capVars, perfVars, certVars>>
    \/ \E p \in Tasks, s \in CipherSessionIds :
           rotate_lock_keys(p, s) /\ UNCHANGED <<clockVars, sessVars, bruteVars, accessVars, authVars, sigVars, rtcVars, netVars, capVars, perfVars, certVars>>
    \/ \E p \in Tasks :
           rotate_push_old(p) /\ UNCHANGED <<clockVars, sessVars, bruteVars, accessVars, authVars, sigVars, rtcVars, netVars, capVars, perfVars, certVars>>
    \/ \E p \in Tasks, s \in CipherSessionIds :
           remove_key(p, s) /\ UNCHANGED <<clockVars, sessVars, bruteVars, accessVars, authVars, sigVars, rtcVars, netVars, capVars, perfVars, certVars>>
    \/ \E p \in Tasks :
           remove_replay(p) /\ UNCHANGED <<clockVars, sessVars, bruteVars, accessVars, authVars, sigVars, rtcVars, netVars, capVars, perfVars, certVars>>
    \/ \E p \in Tasks :
           remove_old(p) /\ UNCHANGED <<clockVars, sessVars, bruteVars, accessVars, authVars, sigVars, rtcVars, netVars, capVars, perfVars, certVars>>
    \/ \E s \in CipherSessionIds, n \in KeyTaskNonces :
           detect_replay_attack_task(s, n) /\ UNCHANGED <<clockVars, sessVars, bruteVars, accessVars, authVars, sigVars, rtcVars, netVars, capVars, perfVars, certVars>>

(***************************************************************************)
(* Certificate trust (security.rs): the trusted and the revoked            *)
(* fingerprints.  revoke_certificate and is_certificate_trusted take two   *)
(* locks one after the other, and other calls run in between.              *)
(***************************************************************************)
Fingerprints == 0..MaxFingerprint
NoCertificate == -1
CertCall(op, arg, ret) == [op |-> op, arg |-> arg, ret |-> ret]

InitCertificates ==
    /\ trusted_certificates = {}
    /\ revoked_certificates = {}
    /\ device_certificate = NoCertificate
    /\ cert_pc = [revoking |-> {}, checking |-> {}]
    /\ cert_call = CertCall("none", NoCertificate, FALSE)

\* generate_device_certificate takes &mut self: no other call is running.
\* The fingerprint is the hash of freshly drawn keys.
generate_device_certificate(fingerprint) ==
    /\ cert_pc = [revoking |-> {}, checking |-> {}]
    /\ device_certificate' = fingerprint
    /\ trusted_certificates' = trusted_certificates \cup {fingerprint}
    /\ cert_call' = CertCall("generate_device_certificate", fingerprint, TRUE)
    /\ UNCHANGED <<revoked_certificates, cert_pc>>

trust_certificate(fingerprint) ==
    /\ trusted_certificates' = trusted_certificates \cup {fingerprint}
    /\ cert_call' = CertCall("trust_certificate", fingerprint, TRUE)
    /\ UNCHANGED <<revoked_certificates, device_certificate, cert_pc>>

\* revoke_certificate: the insert into the revoked set ...
revoke_certificate_insert(fingerprint) ==
    /\ fingerprint \notin cert_pc.revoking
    /\ revoked_certificates' = revoked_certificates \cup {fingerprint}
    /\ cert_pc' = [cert_pc EXCEPT !.revoking = @ \cup {fingerprint}]
    /\ cert_call' = CertCall("revoke_insert", fingerprint, TRUE)
    /\ UNCHANGED <<trusted_certificates, device_certificate>>

\* ... and the removal from the trusted set, after which it returns.
revoke_certificate_remove(fingerprint) ==
    /\ fingerprint \in cert_pc.revoking
    /\ trusted_certificates' = trusted_certificates \ {fingerprint}
    /\ cert_pc' = [cert_pc EXCEPT !.revoking = @ \ {fingerprint}]
    /\ cert_call' = CertCall("revoke_certificate", fingerprint, TRUE)
    /\ UNCHANGED <<revoked_certificates, device_certificate>>

\* is_certificate_trusted: the left operand of && reads the trusted set; a
\* fingerprint not in it is answered at once.
is_certificate_trusted_read(fingerprint) ==
    /\ fingerprint \notin cert_pc.checking
    /\ IF fingerprint \in trusted_certificates
       THEN /\ cert_pc' = [cert_pc EXCEPT !.checking = @ \cup {fingerprint}]
            /\ cert_call' = CertCall("read_trusted", fingerprint, TRUE)
       ELSE /\ cert_call' = CertCall("is_certificate_trusted", fingerprint, FALSE)
            /\ UNCHANGED cert_pc
    /\ UNCHANGED <<trusted_certificates, revoked_certificates, device_certificate>>

\* The answer once the trusted set held the fingerprint.
TrustedWhateverRevoked(fingerprint, revoked) == TRUE
TrustedUnlessRevoked(fingerprint, revoked) == fingerprint \notin revoked

is_certificate_trusted_return(fingerprint) ==
    /\ fingerprint \in cert_pc.checking
    /\ cert_pc' = [cert_pc EXCEPT !.checking = @ \ {fingerprint}]
    /\ cert_call' = CertCall("is_certificate_trusted", fingerprint,
                             TrustedUnlessRevoked(fingerprint, revoked_certificates))
    /\ UNCHANGED <<trusted_certificates, revoked_certificates, device_certificate>>

NextCertificates ==
    \/ \E f \in Fingerprints : generate_device_certificate(f) /\ UNCHANGED <<clockVars, sessVars, keyVars, replayVars, bruteVars, accessVars, authVars, secTaskVars, sigVars, rtcVars, netVars, capVars, perfVars>>
    \/ \E f \in Fingerprints : trust_certificate(f) /\ UNCHANGED <<clockVars, sessVars, keyVars, replayVars, bruteVars, accessVars, authVars, secTaskVars, sigVars, rtcVars, netVars, capVars, perfVars>>
    \/ \E f \in Fingerprints : revoke_certificate_insert(f) /\ UNCHANGED <<clockVars, sessVars, keyVars, replayVars, bruteVars, accessVars, authVars, secTaskVars, sigVars, rtcVars, netVars, capVars, perfVars>>
    \/ \E f \in Fingerprints : revoke_certificate_remove(f) /\ UNCHANGED <<clockVars, sessVars, keyVars, replayVars, bruteVars, accessVars, authVars, secTaskVars, sigVars, rtcVars, netVars, capVars, perfVars>>
    \/ \E f \in Fingerprints : is_certificate_trusted_read(f) /\ UNCHANGED <<clockVars, sessVars, keyVars, replayVars, bruteVars, accessVars, authVars, secTaskVars, sigVars, rtcVars, netVars, capVars, perfVars>>
    \/ \E f \in Fingerprints : is_certificate_trusted_return(f) /\ UNCHANGED <<clockVars, sessVars, keyVars, replayVars, bruteVars, accessVars, authVars, secTaskVars, sigVars, rtcVars, netVars, capVars, perfVars>>

(***************************************************************************)
(* start_monitoring as concurrent callers run it: its read of              *)
(* is_monitoring and its write are two lock acquisitions, and other calls  *)
(* and the sampler tasks run in between.                                   *)
(***************************************************************************)
FreePlaces == {k \in MonitorIds : samplers[k].pc \in {"idle", "done"}}

\* `if *self.is_monitoring.read().await { return Ok(()) }`
start_monitoring_read ==
    /\ ~is_monitoring => starting < Cardinality(FreePlaces)
    /\ starting' = IF is_monitoring THEN starting ELSE starting + 1
    /\ net_call' = NetCall("start_monitoring_read", 0, OkKind("Unknown"))
    /\ UNCHANGED <<is_monitoring, samplers, iterations, current_stats,
                   stats_history, produced, net_emitted>>
    /\ UnchangedConfig /\ UnchangedQuality

\* `*self.is_monitoring.write().await = true` and the spawn of the loop.
start_monitoring_spawn ==
    /\ starting > 0
    /\ starting' = starting - 1
    /\ is_monitoring' = TRUE
    /\ LET k == CHOOSE k \in FreePlaces : \A j \in FreePlaces : k <= j
       IN  samplers' = [samplers EXCEPT ![k] =
                           [IdleSampler EXCEPT !.pc = "test"]]
    /\ net_call' = NetCall("start_monitoring", 0, OkKind("Unknown"))
    /\ UNCHANGED <<iterations, current_stats, stats_history, produced,
                   net_emitted>>
    /\ UnchangedConfig /\ UnchangedQuality

NextMonitor ==
    \/ start_monitoring_read /\ UNCHANGED <<clockVars, sessVars, keyVars, replayVars, bruteVars, accessVars, authVars, secTaskVars, sigVars, rtcVars, capVars, perfVars, certVars>>
    \/ start_monitoring_spawn /\ UNCHANGED <<clockVars, sessVars, keyVars, replayVars, bruteVars, accessVars, authVars, secTaskVars, sigVars, rtcVars, capVars, perfVars, certVars>>
    \/ stop_monitoring /\ UNCHANGED <<clockVars, sessVars, keyVars, replayVars, bruteVars, accessVars, authVars, secTaskVars, sigVars, rtcVars, capVars, perfVars, certVars>>
    \/ \E k \in MonitorIds :
           sampler_step(k, MaxLoopIterations, {measure_stats_internal})

(***************************************************************************)
(* Performance Optimizer (performance.rs): the frame-buffer manager and    *)
(* the input-event optimizer.                                              *)
(***************************************************************************)
\* A frame as far as the manager looks at it: its id and data.len().
FrameIds == 0..MaxFrameId
FrameSizes == {1, 2}
Frames == [id : FrameIds, size : FrameSizes]
NoFrame == [id |-> -1, size |-> 0]
BufferCapacities == 1..MaxBuffers
QueueCapacities == {1, 2}

InputEventTypes == {"MouseMove", "KeyDown"}
Priorities == {1, 3, 5}
batch_interval_ms == 16

\* An InputEventEntry; every field is the caller's, the timestamp the
\* Instant::now() of the call site.
InputEventEntry(event_type, timestamp, priority) ==
    [event_type |-> event_type, timestamp |-> timestamp, priority |-> priority]

PerfCall(op, ret) == [op |-> op, ret |-> ret]

FrameBufferManager_new(capacity) ==
    /\ frame_buffers = <<>>
    /\ max_buffers = capacity
    /\ total_bytes = 0
    /\ dropped_frames = 0

InputOptimizer_new(capacity) ==
    /\ event_queue = <<>>
    /\ max_queue_size = capacity
    /\ last_batch_time = now

InitPerformance ==
    /\ FrameBufferManager_new(3)
    /\ InputOptimizer_new(100)
    /\ perf_call = PerfCall("none", <<>>)

\* Whether push_frame finds the queue full and a frame to drop.
EvictsPastCapacity(buffers, capacity) == Len(buffers) > capacity /\ buffers # <<>>
Evicts(buffers, capacity) == Len(buffers) >= capacity /\ buffers # <<>>

push_frame(frame) ==
    LET evicts == Evicts(frame_buffers, max_buffers)
        old_frame == IF evicts THEN Head(frame_buffers) ELSE NoFrame
    IN  /\ evicts => dropped_frames < MaxDropped
        /\ frame_buffers' =
               Append(IF evicts THEN Tail(frame_buffers) ELSE frame_buffers,
                      frame)
        /\ total_bytes' = (total_bytes - old_frame.size) + frame.size
        /\ dropped_frames' = dropped_frames + (IF evicts THEN 1 ELSE 0)
        /\ perf_call' = PerfCall("push_frame", <<frame>>)
        /\ UNCHANGED <<max_buffers, event_queue, max_queue_size, last_batch_time>>

pop_frame ==
    /\ IF frame_buffers # <<>>
       THEN /\ frame_buffers' = Tail(frame_buffers)
            /\ total_bytes' = total_bytes - Head(frame_buffers).size
            /\ perf_call' = PerfCall("pop_frame", <<Head(frame_buffers)>>)
       ELSE /\ perf_call' = PerfCall("pop_frame", <<>>)
            /\ UNCHANGED <<frame_buffers, total_bytes>>
    /\ UNCHANGED <<dropped_frames, max_buffers, event_queue, max_queue_size,
                   last_batch_time>>

clear ==
    /\ frame_buffers' = <<>>
    /\ total_bytes' = 0
    /\ perf_call' = PerfCall("clear", <<>>)
    /\ UNCHANGED <<dropped_frames, max_buffers, event_queue, max_queue_size,
                   last_batch_time>>

NextFrames ==
    \/ \E frame \in Frames : push_frame(frame) /\ UNCHANGED <<clockVars, sessVars, keyVars, replayVars, bruteVars, accessVars, authVars, secTaskVars, sigVars, rtcVars, netVars, capVars, certVars>>
    \/ pop_frame /\ UNCHANGED <<clockVars, sessVars, keyVars, replayVars, bruteVars, accessVars, authVars, secTaskVars, sigVars, rtcVars, netVars, capVars, certVars>>
    \/ clear /\ UNCHANGED <<clockVars, sessVars, keyVars, replayVars, bruteVars, accessVars, authVars, secTaskVars, sigVars, rtcVars, netVars, capVars, certVars>>

RemoveAt(queue, idx) ==
    SubSeq(queue, 1, idx - 1) \o SubSeq(queue, idx + 1, Len(queue))

\* The index max_by_key(priority) yields: of several equal maxima the last.
HighestPriorityIndex(queue) ==
    CHOOSE i \in DOMAIN queue :
        /\ \A j \in DOMAIN queue : queue[j].priority >= queue[i].priority
        /\ \A j \in DOMAIN queue : queue[j].priority = queue[i].priority => j <= i
LowestPriorityIndex(queue) ==
    CHOOSE i \in DOMAIN queue :
        /\ \A j \in DOMAIN queue : queue[j].priority <= queue[i].priority
        /\ \A j \in DOMAIN queue : queue[j].priority = queue[i].priority => j <= i

\* The while loop of queue_event: it ends when there is room or nothing
\* left to remove.
RECURSIVE MakeRoom(_, _)
MakeRoom(queue, capacity) ==
    IF Len(queue) >= capacity /\ queue # <<>>
    THEN MakeRoom(RemoveAt(queue, LowestPriorityIndex(queue)), capacity)
    ELSE queue

\* The events that loop removes, in the order it removes them.
RECURSIVE Discarded(_, _)
Discarded(queue, capacity) ==
    IF Len(queue) >= capacity /\ queue # <<>>
    THEN <<queue[LowestPriorityIndex(queue)]>>
             \o Discarded(RemoveAt(queue, LowestPriorityIndex(queue)), capacity)
    ELSE <<>>

queue_event(event) ==
    /\ event_queue' = Append(MakeRoom(event_queue, max_queue_size), event)
    /\ perf_call' = PerfCall("queue_event", Discarded(event_queue, max_queue_size))
    /\ UNCHANGED <<frame_buffers, total_bytes, dropped_frames, max_buffers,
                   max_queue_size, last_batch_time>>

\* The comparator of the sort in get_batch.
SortsBefore(a, b) ==
    \/ a.priority < b.priority
    \/ a.priority = b.priority /\ a.timestamp < b.timestamp

\* sort_by is stable: an event goes behind the events that compare equal.
InsertSorted(sorted, event) ==
    LET later == {i \in DOMAIN sorted : SortsBefore(event, sorted[i])}
        at == IF later = {} THEN Len(sorted) + 1
              ELSE CHOOSE i \in later : \A j \in later : i <= j
    IN  SubSeq(sorted, 1, at - 1) \o <<event>> \o SubSeq(sorted, at, Len(sorted))

RECURSIVE SortEvents(_)
SortEvents(drained) ==
    IF drained = <<>> THEN <<>>
    ELSE InsertSorted(SortEvents(SubSeq(drained, 1, Len(drained) - 1)),
                      drained[Len(drained)])

\* The coalescing loop: last_mouse_move is the Option, a sequence of at
\* most one event.
RECURSIVE Coalesce(_, _, _)
Coalesce(sorted, coalesced, last_mouse_move) ==
    IF sorted = <<>> THEN coalesced \o last_mouse_move
    ELSE IF Head(sorted).event_type = "MouseMove"
         THEN Coalesce(Tail(sorted), coalesced, <<Head(sorted)>>)
         ELSE Coalesce(Tail(sorted),
                       coalesced \o last_mouse_move \o <<Head(sorted)>>, <<>>)

get_batch ==
    /\ IF (now - last_batch_time) * MsPerSec < batch_interval_ms
       THEN /\ perf_call' = PerfCall("get_batch", <<>>)
            /\ UNCHANGED <<event_queue, last_batch_time>>
       ELSE /\ last_batch_time' = now
            /\ event_queue' = <<>>
            /\ perf_call' =
                   PerfCall("get_batch",
                            Coalesce(SortEvents(event_queue), <<>>, <<>>))
    /\ UNCHANGED <<frame_buffers, total_bytes, dropped_frames, max_buffers,
                   max_queue_size>>

InputEvents ==
    {InputEventEntry(event_type, timestamp, priority) :
        event_type \in InputEventTypes, timestamp \in {now},
        priority \in Priorities}

NextInput ==
    \/ \E event \in InputEvents : queue_event(event) /\ UNCHANGED <<clockVars, sessVars, keyVars, replayVars, bruteVars, accessVars, authVars, secTaskVars, sigVars, rtcVars, netVars, capVars, certVars>>
    \/ get_batch /\ UNCHANGED <<clockVars, sessVars, keyVars, replayVars, bruteVars, accessVars, authVars, secTaskVars, sigVars, rtcVars, netVars, capVars, certVars>>
    \/ Tick({1}, MaxPerfTicks) /\ UNCHANGED <<perfVars, sessVars, keyVars, replayVars, bruteVars, accessVars, authVars, secTaskVars, sigVars, rtcVars, netVars, capVars, certVars>>

\* The managers as new() leaves them, for the capacities the checks use.
InitPerformance0 ==
    /\ InitClock
    /\ InitSession
    /\ InitSecurityTables
    /\ InitAccess
    /\ InitAuth
    /\ InitSignaling
    /\ InitWebRTC
    /\ InitNetwork
    /\ InitCapture
    /\ InitCertificates
    /\ \E capacity \in BufferCapacities : FrameBufferManager_new(capacity)
    /\ \E capacity \in QueueCapacities : InputOptimizer_new(capacity)
    /\ perf_call = PerfCall("none", <<>>)
    /\ config = [enable_dtls_srtp |-> TRUE]
    /\ key_rotation_config = DefaultKeyRotationConfig
    /\ threat_detection_config = DefaultThreatDetectionConfig

\* The manager with the stats some caller hands to calculate_quality.
InitQualityRule ==
    /\ InitClock
    /\ InitSession
    /\ InitSecurityTables
    /\ InitAccess
    /\ InitAuth
    /\ InitSignaling
    /\ InitWebRTC
    /\ InitPerformance
    /\ InitCertificates
    /\ InitNetworkManager
    /\ quality_in \in StatsInputs
    /\ quality_out = "Unknown"
    /\ InitCapture
    /\ config = [enable_dtls_srtp |-> TRUE]
    /\ key_rotation_config = DefaultKeyRotationConfig
    /\ threat_detection_config = DefaultThreatDetectionConfig

InitSession0 ==
    /\ InitClock
    /\ InitSession
    /\ InitSecurityTables
    /\ InitAccess
    /\ InitAuth
    /\ InitSignaling
    /\ InitWebRTC
    /\ InitNetwork
    /\ InitCapture
    /\ InitPerformance
    /\ InitCertificates
    /\ config = [enable_dtls_srtp |-> TRUE]
    /\ key_rotation_config = DefaultKeyRotationConfig
    /\ threat_detection_config = DefaultThreatDetectionConfig

InitKeys ==
    /\ InitClock
    /\ InitSession
    /\ InitSecurityTables
    /\ InitAccess
    /\ InitAuth
    /\ InitSignaling
    /\ InitWebRTC
    /\ InitNetwork
    /\ InitCapture
    /\ InitPerformance
    /\ InitCertificates
    /\ config \in [enable_dtls_srtp : BOOLEAN]
    /\ key_rotation_config \in KeyRotationConfigs
    /\ threat_detection_config = DefaultThreatDetectionConfig

\* The SecurityConfig values the payload checks run under.
SecurityConfigs ==
    {[enable_dtls_srtp |-> media,
      enable_tls_signaling |-> ~media,
      enable_file_encryption |-> file] : media, file \in BOOLEAN}

InitCipher ==
    /\ InitClock
    /\ InitSession
    /\ InitSecurityTables
    /\ InitAccess
    /\ InitAuth
    /\ InitSignaling
    /\ InitWebRTC
    /\ InitNetwork
    /\ InitCapture
    /\ InitPerformance
    /\ InitCertificates
    /\ config \in SecurityConfigs
    /\ key_rotation_config = DefaultKeyRotationConfig
    /\ threat_detection_config = DefaultThreatDetectionConfig

InitMedia ==
    /\ InitClock
    /\ InitSession
    /\ InitSecurityTables
    /\ InitAccess
    /\ InitAuth
    /\ InitSignaling
    /\ InitWebRTC
    /\ InitNetwork
    /\ InitCapture
    /\ InitPerformance
    /\ InitCertificates
    /\ config \in {c \in SecurityConfigs : c.enable_file_encryption}
    /\ key_rotation_config = DefaultKeyRotationConfig
    /\ threat_detection_config = DefaultThreatDetectionConfig

InitReplayRace ==
    /\ InitClock
    /\ InitSession
    /\ InitSecurityTables
    /\ InitAccess
    /\ InitAuth
    /\ InitSignaling
    /\ InitWebRTC
    /\ InitNetwork
    /\ InitCapture
    /\ InitPerformance
    /\ InitCertificates
    /\ config \in {c \in SecurityConfigs :
                      c.enable_dtls_srtp /\ c.enable_file_encryption}
    /\ key_rotation_config = DefaultKeyRotationConfig
    /\ threat_detection_config = DefaultThreatDetectionConfig

InitReplay ==
    /\ InitClock
    /\ InitSession
    /\ InitSecurityTables
    /\ InitAccess
    /\ InitAuth
    /\ InitSignaling
    /\ InitWebRTC
    /\ InitNetwork
    /\ InitCapture
    /\ InitPerformance
    /\ InitCertificates
    /\ config = [enable_dtls_srtp |-> TRUE]
    /\ key_rotation_config = DefaultKeyRotationConfig
    /\ threat_detection_config \in
           {[DefaultThreatDetectionConfig EXCEPT
                !.detect_replay_attacks = r] : r \in BOOLEAN}

InitBrute ==
    /\ InitClock
    /\ InitSession
    /\ InitSecurityTables
    /\ InitAccess
    /\ InitAuth
    /\ InitSignaling
    /\ InitWebRTC
    /\ InitNetwork
    /\ InitCapture
    /\ InitPerformance
    /\ InitCertificates
    /\ config = [enable_dtls_srtp |-> TRUE]
    /\ key_rotation_config = DefaultKeyRotationConfig
    /\ threat_detection_config \in ThreatDetectionConfigs

SpecSession == InitSession0 /\ [][NextSession]_vars
SpecMonitor == InitSession0 /\ [][NextMonitor]_vars
SpecCertificates == InitSession0 /\ [][NextCertificates]_vars
SpecKeyTasks == InitSession0 /\ [][NextKeyTasks]_vars
SpecFrames == InitPerformance0 /\ [][NextFrames]_vars
SpecInput == InitPerformance0 /\ [][NextInput]_vars
SpecSignaling == InitSession0 /\ [][NextSignaling]_vars
SpecWebRTC == InitSession0 /\ [][NextWebRTC]_vars
SpecEstablish == InitSession0 /\ [][NextEstablish]_vars
SpecQualityRule == InitQualityRule /\ [][NextQualityRule]_vars
SpecSampler == InitSession0 /\ [][NextSampler]_vars
SpecQuality == InitSession0 /\ [][NextQuality]_vars
SpecAdapt == InitSession0 /\ [][NextAdapt]_vars
SpecLoops == InitSession0 /\ [][NextLoops]_vars
\* The spawned loops are tasks the runtime keeps scheduling; the calls that
\* start and stop them are not forced.
SpecLoopsLive ==
    /\ SpecLoops
    /\ \A k \in LoopSamplerIds :
           WF_vars(sampler_step(k, MaxLoopIterations, {measure_stats_internal}))
    /\ \A k \in CaptureLoopIds : WF_vars(capture_step(k, MaxLoopIterations))
\* The send loops are tasks the runtime keeps scheduling; frames and closes
\* from the server, and the calls of the application, are not forced.
SpecSignalingLive ==
    /\ SpecSignaling
    /\ \A c \in ConnIds :
           WF_vars(send_loop_step(c))
SpecPermission == InitSession0 /\ [][NextPermission]_vars
SpecReplayRace == InitReplayRace /\ [][NextReplayRace]_vars
SpecCipher == InitMedia /\ [][NextCipher]_vars
SpecRoundTrip == InitCipher /\ [][NextRoundTrip]_vars
SpecKeys == InitKeys /\ [][NextKeys]_vars
SpecReplay == InitReplay /\ [][NextReplay]_vars
SpecBrute == InitBrute /\ [][NextBrute]_vars
SpecAccess == InitSession0 /\ [][NextAccess]_vars
SpecAuth == InitSession0 /\ [][NextAuth]_vars
SpecRespond == InitSession0 /\ [][NextRespond]_vars
SpecRegistration == InitSession0 /\ [][NextRegistration]_vars

(***************************************************************************)
(* C1: every status change made by join_session is pending -> active, by   *)
(* pause_session active -> paused, by resume_session paused -> active; on  *)
(* a session in any other status these operations leave the status as it   *)
(* was.                                                                    *)
(***************************************************************************)
C1_TransitionTable ==
    [][\A s \in SessionIds :
         LET before == active_sessions[s]
             after == active_sessions'[s]
         IN  (sess_call'.sid = s /\ before # after) =>
               /\ sess_call'.op = "join" =>
                      before = "Pending" /\ after = "Active"
               /\ sess_call'.op = "pause" =>
                      before = "Active" /\ after = "Paused"
               /\ sess_call'.op = "resume" =>
                      before = "Paused" /\ after = "Active"]_vars

(***************************************************************************)
(* C2: an envelope sealed for a session under a key that a rotation has    *)
(* superseded still decrypts while the old key's grace expiration lies     *)
(* ahead, and no longer decrypts once that expiration has passed.          *)
(***************************************************************************)
C2_GraceDecrypt ==
    (sec_call.op = "decrypt" /\ config.enable_dtls_srtp
        /\ sec_call.arg.key_id = sec_call.sid) =>
    \A i \in 1..Len(old_session_keys[sec_call.sid]) :
        LET old == old_session_keys[sec_call.sid][i]
        IN  old.key.key = sec_call.arg.k =>
              /\ now < old.expiration => sec_call.ok
              /\ now > old.expiration => ~sec_call.ok

(***************************************************************************)
(* C7: while a session ID holds a key its rotation counter never           *)
(* decreases, whichever of generate_session_key, rotate_session_key and    *)
(* auto_rotate_expired_keys is called, and each successful rotation adds   *)
(* exactly one to it.                                                      *)
(***************************************************************************)
C7_RotationCounterMonotonic ==
    [][\A s \in KeySessionIds :
         (session_keys[s] # NoKey /\ session_keys'[s] # NoKey) =>
           /\ session_keys'[s].rotation_count
                  >= session_keys[s].rotation_count
           /\ (sec_call'.op \in {"rotate", "auto_rotate"}
                  /\ s \in sec_call'.out
                  /\ session_keys'[s] # session_keys[s]) =>
                 session_keys'[s].rotation_count
                     = session_keys[s].rotation_count + 1]_vars

(***************************************************************************)
(* C3: the first presentation of a nonce for a session is accepted, and    *)
(* every later presentation of that nonce made within the retention        *)
(* window (300 s) of the first one is reported as a replay.                *)
(***************************************************************************)
C3_ReplayWithinWindow ==
    [][\A s \in KeySessionIds, n \in Nonces :
         (threat_detection_config.detect_replay_attacks
             /\ sec_call'.op \in {"detect_replay", "security_check"}
             /\ sec_call'.sid = s /\ sec_call'.arg = n) =>
           IF first_presented[s][n] = Never
           THEN sec_call'.out = FALSE
           ELSE now - first_presented[s][n] <= nonce_expiration_secs =>
                    sec_call'.out = TRUE]_vars

(***************************************************************************)
(* C4: when detect_replay_attack or security_check reports a replay for    *)
(* session S, the session key and the replay state of S are gone and S is  *)
(* in status failed, so get_session_key(S) returns none.                   *)
(***************************************************************************)
C4_ReplayTerminatesSession ==
    \A s \in KeySessionIds :
        (sec_call.op \in {"detect_replay", "security_check"}
            /\ sec_call.sid = s /\ sec_call.out = TRUE) =>
          /\ get_session_key(s) = NoKey
          /\ replay_detection[s] = NoState
          /\ s \in SessionIds => active_sessions[s] \in {NoSession, "Failed"}

(***************************************************************************)
(* C5: for an identifier that is not locked out, a track_failed_attempt    *)
(* call that is at most the (N-1)-th counted attempt within the attempt    *)
(* window returns false and leaves is_locked_out false; the call that is   *)
(* the N-th within the window returns true and makes is_locked_out true; a *)
(* clear_failed_attempts makes is_locked_out false again.  (N is           *)
(* max_failed_attempts; an attempt counts as within the window while it is *)
(* less than attempt_window_secs old.)                                     *)
(***************************************************************************)
AttemptsInWindow(id) ==
    Cardinality({i \in 1..Len(attempt_log[id]) :
                    now - attempt_log[id][i]
                        < threat_detection_config.attempt_window_secs}) + 1

C5_LockoutAtThreshold ==
    [][\A id \in Identifiers :
         /\ (threat_detection_config.detect_brute_force
                /\ sec_call'.op = "track" /\ sec_call'.sid = id
                /\ ~is_locked_out(id)) =>
               IF AttemptsInWindow(id)
                      < threat_detection_config.max_failed_attempts
               THEN sec_call'.out = FALSE /\ ~is_locked_out(id)'
               ELSE sec_call'.out = TRUE /\ is_locked_out(id)'
         /\ (sec_call'.op = "clear" /\ sec_call'.sid = id) =>
               ~is_locked_out(id)']_vars

C5_Witness ==
    \E id \in Identifiers :
        /\ threat_detection_config.max_failed_attempts = MaxAttempts
        /\ sec_call.op = "track" /\ sec_call.sid = id
        /\ sec_call.out = TRUE
        /\ is_locked_out(id)
        /\ locked_at[id] = now

(***************************************************************************)
(* C6: once an identifier is locked out at time t, is_locked_out is true   *)
(* at every time before t + lockout_duration and false at every time after *)
(* it, whatever track_failed_attempt calls are made meanwhile; the first   *)
(* track_failed_attempt after the expiry starts a fresh attempt window.    *)
(***************************************************************************)
LockoutHolds ==
    \A id \in Identifiers :
        locked_at[id] # Never =>
          LET expiry == locked_at[id]
                            + threat_detection_config.lockout_duration_secs
          IN  /\ now < expiry => is_locked_out(id)
              /\ now > expiry => ~is_locked_out(id)

FreshWindowAfterExpiry ==
    \A id \in Identifiers :
        (sec_call'.op = "track" /\ sec_call'.sid = id
            /\ locked_at[id] # Never
            /\ now >= locked_at[id]
                          + threat_detection_config.lockout_duration_secs
            /\ attempt_log[id] = <<>>) =>
          /\ sec_call'.out
                 = (threat_detection_config.max_failed_attempts <= 1)
          /\ Len(failed_attempts'.attempts[id]) <= 1
          /\ \A i \in 1..Len(failed_attempts'.attempts[id]) :
                 failed_attempts'.attempts[id][i] = now

C6_LockoutDuration == []LockoutHolds /\ [][FreshWindowAfterExpiry]_vars

C6_Witness ==
    \E id \in Identifiers :
        /\ sec_call.op = "track" /\ sec_call.sid = id
        /\ sec_call.out = TRUE
        /\ locked_at[id] # Never
        /\ locked_at[id] < now
        /\ is_locked_out(id)

(***************************************************************************)
(* C8: of all the use_access_code calls made on one access code, in any    *)
(* interleaving, at most one returns the permission set; every other call  *)
(* returns none.                                                           *)
(***************************************************************************)
C8_UsedAtMostOnce ==
    /\ \A c \in Codes : granted[c] <= 1
    /\ \A c \in Codes :
           (acc_call.op = "use" /\ acc_call.arg = c /\ acc_call.out.some) =>
               /\ access_codes[c].used /\ granted[c] = 1
               /\ acc_call.out.permissions = access_codes[c].permissions

C8_Witness ==
    \E c \in Codes, p \in Procs :
        /\ acc_call.op = "use" /\ acc_call.arg = c /\ acc_call.out.some
        /\ use_pc[p] = "waiting" /\ use_arg[p] = c
        /\ granted[c] = 1

(***************************************************************************)
(* C9: validate_access_code(c) returns the stored record exactly when a    *)
(* record for c exists, is at most 600 s old and has not been used, and    *)
(* none otherwise; it changes no code record.                              *)
(***************************************************************************)
C9_ValidateIffValid ==
    [][acc_call'.op = "validate" =>
         LET rec == access_codes[acc_call'.arg]
         IN  /\ access_codes' = access_codes
             /\ IF rec.code # 0
                    /\ now - rec.created_at <= ACCESS_CODE_EXPIRATION_SECS
                    /\ ~rec.used
                THEN acc_call'.out = rec
                ELSE acc_call'.out = NoCode]_vars

C9_Witness ==
    /\ acc_call.op = "validate"
    /\ acc_call.out # NoCode
    /\ now - acc_call.out.created_at = ACCESS_CODE_EXPIRATION_SECS

(***************************************************************************)
(* C10: while a record for a code string stays in the access-code table,   *)
(* its used flag never goes from true back to false, whatever              *)
(* generate_access_code, use_access_code, validate_access_code and         *)
(* cleanup_expired_codes calls are made.                                   *)
(***************************************************************************)
C10_UsedMonotonic ==
    [][\A c \in Codes :
         (access_codes[c] # NoCode /\ access_codes'[c] # NoCode
             /\ access_codes[c].used) => access_codes'[c].used]_vars

(***************************************************************************)
(* C11: an accepted respond_to_request installs an authorization only if   *)
(* the request carried an access code that was valid (known, unexpired,    *)
(* unused) at that time, or the device already held an active              *)
(* authorization; a request with an expired, used or unknown code never    *)
(* leads to an installed authorization.                                    *)
(***************************************************************************)
RequestCodeValid(request) ==
    /\ request.access_code # NoAccessCode
    /\ access_codes[request.access_code] # NoCode
    /\ is_valid(access_codes[request.access_code])

C11_AuthorizedOnlyWithValidCode ==
    [][\A d \in RemoteDevices :
         (acc_call'.op = "respond" /\ acc_call'.out.ok
             /\ acc_call'.out.response.accepted
             /\ acc_call'.out.request.from_device_id = d
             /\ is_device_authorized(d)') =>
           \/ RequestCodeValid(acc_call'.out.request)
           \/ is_device_authorized(d)]_vars

(***************************************************************************)
(* C12: the active flag of a stored authorization record never goes from   *)
(* false to true, under handle_connection_request, respond_to_request and  *)
(* revoke_authorization.                                                   *)
(***************************************************************************)
C12_ActiveNeverReturns ==
    [][\A d \in RemoteDevices :
         (authorized_devices[d] # NoAuthorization
             /\ ~authorized_devices[d].active) =>
           /\ authorized_devices'[d] # NoAuthorization
           /\ ~authorized_devices'[d].active]_vars

(***************************************************************************)
(* C13: each request id is answered at most once: a respond_to_request on  *)
(* a pending request succeeds, and once a response has succeeded every     *)
(* further respond_to_request with that id, concurrent ones included,      *)
(* fails with not-found and leaves the authorization table unchanged.      *)
(***************************************************************************)
AnsweredAtMostOnce == \A r \in RequestIds : answered[r] <= 1

RespondOutcome ==
    acc_call'.op = "respond" =>
        LET r == acc_call'.arg
        IN  /\ acc_call'.out.ok => answered[r] = 0 /\ answered'[r] = 1
            /\ pending_requests[r] # NoRequest => acc_call'.out.ok
            /\ (answered[r] >= 1 \/ r >= next_request_id) =>
                  /\ ~acc_call'.out.ok
                  /\ authorized_devices' = authorized_devices

C13_AnsweredOnce == []AnsweredAtMostOnce /\ [][RespondOutcome]_vars

C13_Witness ==
    \E p \in Procs :
        /\ acc_call.op = "respond"
        /\ ~acc_call.out.ok
        /\ answered[acc_call.arg] = 1
        /\ resp_pc[p] = "waiting"
        /\ resp_arg[p].request_id = acc_call.arg

(***************************************************************************)
(* C14: register_device is idempotent on identical inputs: a second call   *)
(* with the same name, platform and version returns the same Device-ID and *)
(* leaves the registration record, unattended-access settings included, as *)
(* it was after the first call.                                            *)
(***************************************************************************)
C14_RegisterIdempotent ==
    [][(acc_call'.op = "register"
           /\ device_registration # NoRegistration
           /\ device_registration'.device_name
                  = device_registration.device_name
           /\ device_registration'.platform = device_registration.platform
           /\ device_registration'.version = device_registration.version) =>
         /\ acc_call'.out = device_id
         /\ device_id' = device_id
         /\ device_registration' = device_registration]_vars

(***************************************************************************)
(* C15: end_session on a live session removes it from the active table,    *)
(* appends exactly one history record for it and emits one Ended event;    *)
(* every join_session, pause_session, resume_session, end_session or       *)
(* update_session_stats called on that session ID afterwards fails with    *)
(* session-not-found and adds no history record and no event.              *)
(***************************************************************************)
RecordsOf(history, s) ==
    Cardinality({i \in 1..Len(history) : history[i].session_id = s})

EndedEventsOf(log, s) ==
    Cardinality({i \in 1..Len(log) : log[i].kind = "Ended" /\ log[i].id = s})

SessionEnded(s) == s < next_session_id /\ active_sessions[s] = NoSession

EndedOnce ==
    \A s \in SessionIds :
        /\ RecordsOf(session_history, s) <= 1
        /\ EndedEventsOf(events, s) <= 1
        /\ (RecordsOf(session_history, s) = 1
               \/ EndedEventsOf(events, s) = 1) => SessionEnded(s)

EndSessionSteps ==
    /\ \A s \in SessionIds :
           (sess_call'.op = "end" /\ sess_call'.sid = s /\ sess_call'.ok
               /\ active_sessions[s] # NoSession) =>
             active_sessions'[s] = NoSession
    /\ \A p \in Tasks :
           (sess_pc[p] = "end_record" /\ sess_pc'[p] # "end_record") =>
             /\ RecordsOf(session_history', sess_arg[p].sid) = 1
             /\ events' = events
    /\ \A p \in Tasks :
           (sess_pc[p] = "end_emit" /\ sess_pc'[p] # "end_emit") =>
             /\ EndedEventsOf(events', sess_arg[p].sid) = 1
             /\ Len(events') = Len(events) + 1
             /\ session_history' = session_history
    /\ (sess_call'.op \in {"join", "pause", "resume", "end", "update_stats"}
           /\ SessionEnded(sess_call'.sid)) =>
          /\ ~sess_call'.ok
          /\ session_history' = session_history
          /\ events' = events
          /\ sess_pc' = sess_pc

C15_EndIsFinal == []EndedOnce /\ [][EndSessionSteps]_vars

C15_Witness ==
    /\ sess_call.op \in {"join", "pause", "resume", "end", "update_stats"}
    /\ ~sess_call.ok
    /\ SessionEnded(sess_call.sid)
    /\ RecordsOf(session_history, sess_call.sid) = 1
    /\ EndedEventsOf(events, sess_call.sid) = 1

(***************************************************************************)
(* C16: grant_permission resolves each permission request at most once: on *)
(* a pending request younger than 5 minutes it succeeds and emits exactly  *)
(* one PermissionGranted or PermissionDenied; on a pending request older   *)
(* than 5 minutes it fails with an expired error and emits neither; on an  *)
(* unknown or already resolved request it fails.                           *)
(***************************************************************************)
ResolutionsOf(log, r) ==
    Cardinality({i \in 1..Len(log) :
                    /\ log[i].kind \in {"PermissionGranted", "PermissionDenied"}
                    /\ log[i].id = r})

ResolvedAtMostOnce ==
    \A r \in PermissionRequestIds : ResolutionsOf(events, r) <= 1

GrantOutcome ==
    sess_call'.op = "grant" =>
        LET r == sess_call'.sid
            request == permission_requests[r]
            age == now - request.created_at
            limit == permission_validity_mins * SecsPerMin
            resolution ==
              Event(IF sess_call'.grant THEN "PermissionGranted"
                    ELSE "PermissionDenied", r, 0)
        IN  /\ permission_requests'[r] = NoPermissionRequest
            /\ IF request = NoPermissionRequest
               THEN ~sess_call'.ok /\ events' = events
               ELSE /\ age < limit =>
                         sess_call'.ok /\ events' = Append(events, resolution)
                    /\ age > limit =>
                         /\ ~sess_call'.ok /\ sess_call'.err = "expired"
                         /\ events' = events

C16_GrantOnce == []ResolvedAtMostOnce /\ [][GrantOutcome]_vars

C16_Witness ==
    /\ sess_call.op = "grant"
    /\ ~sess_call.ok
    /\ sess_call.err = "expired"
    /\ ResolutionsOf(events, sess_call.sid) = 0

(***************************************************************************)
(* C17: for each session, the order in which a subscriber observes its     *)
(* Started, Paused, Resumed and Ended events equals the order in which the *)
(* corresponding status changes were applied to the session, under any     *)
(* interleaving of concurrent join, pause, resume and end calls.           *)
(***************************************************************************)
StatusEvents == {"Started", "Paused", "Resumed", "Ended"}

C17_EventsInChangeOrder ==
    \A i, j \in 1..Len(events) :
        (/\ i < j
         /\ events[i].kind \in StatusEvents
         /\ events[j].kind \in StatusEvents
         /\ events[i].id = events[j].id)
            => events[i].change < events[j].change

(***************************************************************************)
(* C20: decrypt(encrypt(p)) = p for media, file and signaling payloads,    *)
(* provided the session key is neither rotated nor removed between the     *)
(* two calls.                                                              *)
(***************************************************************************)
ChannelEnabled(op) ==
    CASE op = "decrypt" -> config.enable_dtls_srtp
      [] op = "decrypt_file" -> config.enable_file_encryption
      [] op = "decrypt_signaling" -> config.enable_tls_signaling

\* The envelope is one that the channel's encrypt call produces for the
\* session under the key the session has now.
SealedUnderCurrentKey(op, s, e) ==
    /\ e \in envelopes
    /\ e.key_id = s
    /\ IF ChannelEnabled(op)
       THEN session_keys[s] # NoKey /\ e.k = session_keys[s].key
       ELSE e.k = NoCipher

RoundTrip ==
    (/\ sec_call'.op \in {"decrypt", "decrypt_file", "decrypt_signaling"}
     /\ SealedUnderCurrentKey(sec_call'.op, sec_call'.sid, sec_call'.arg))
        => /\ sec_call'.ok
           /\ sec_call'.out = sec_call'.arg.pt

IssuedKeys == {k \in KeyIds : k < next_key}

OneWholeKey ==
    \A p \in Tasks :
        (sec_pc[p] = "cipher" /\ sec_pc'[p] = "idle") =>
            LET k == sec_call'.out.key
            IN  /\ k \in IssuedKeys
                /\ k = sec_arg[p].hi
                /\ sec_arg[p].op = "encrypt" => sec_call'.out.out.k = k
                /\ sec_arg[p].op = "decrypt" =>
                       (sec_call'.ok <=> sec_arg[p].arg.k = k)

C18_OneWholeKey == [][OneWholeKey]_vars

\* A call finished with the key of before a rotation that happened while the
\* call was running.
C18_Witness ==
    /\ sec_call.op \in {"encrypt", "decrypt"}
    /\ sec_call.ok
    /\ sec_call.out.key \in IssuedKeys
    /\ session_keys[sec_call.sid] # NoKey
    /\ session_keys[sec_call.sid].key # sec_call.out.key
    /\ old_session_keys[sec_call.sid] # <<>>
    /\ old_session_keys[sec_call.sid]
           [Len(old_session_keys[sec_call.sid])].key.key = sec_call.out.key

(***************************************************************************)
(* C19: for any session and nonce, under any interleaving of concurrent    *)
(* detect_replay_attack calls presenting that nonce, exactly one call      *)
(* finds the nonce unseen and inserts it (returns not-a-replay); all the   *)
(* others report a replay.                                                 *)
(***************************************************************************)
CallsOf(s, n) ==
    {p \in Tasks : /\ sec_pc[p] \in {"waiting", "done"}
                   /\ sec_arg[p].sid = s
                   /\ sec_arg[p].nonce = n}

FoundUnseen(s, n) ==
    {p \in CallsOf(s, n) : sec_pc[p] = "done" /\ ~sec_arg[p].replay}

C19_ExactlyOneUnseen ==
    \A s \in ReplaySessionIds, n \in Nonces :
        /\ Cardinality(FoundUnseen(s, n)) <= 1
        /\ (/\ \A p \in CallsOf(s, n) : sec_pc[p] = "done"
            /\ \E p \in CallsOf(s, n) : sec_arg[p].fresh)
               => Cardinality(FoundUnseen(s, n)) = 1

(***************************************************************************)
(* C21: a send_offer issued while the signaling channel is closed (the     *)
(* client holds no sender) returns an error and leaves the pending         *)
(* exchanges, the metrics, the cached device id and the device directory   *)
(* as they were before the call.                                           *)
(***************************************************************************)
C21_FailedOfferChangesNothing ==
    [][(sig_call'.op = "send_offer" /\ ws_sender = NoSender)
         => /\ ~sig_call'.ok
            /\ UNCHANGED <<pending_exchanges, metrics, sig_device_id,
                           registered_devices>>]_vars

(***************************************************************************)
(* C22: the exchange metrics (successful_exchanges, the last duration and  *)
(* the running average) change exactly when an Answer from T arrives while *)
(* an exchange opened by this client's send_offer to T is pending; that    *)
(* Answer closes the exchange, so a second Answer finds nothing to close.  *)
(***************************************************************************)
ExchangeMetrics(m) ==
    <<m.successful_exchanges, m.last_exchange_duration_ms, m.avg_rtt_ms>>
SentOfferPending(pending, from) == pending[from].opened_by = "send_offer"
AnswerArrives(from) ==
    /\ sig_call'.op = "receive"
    /\ sig_call'.arg.kind = "Answer"
    /\ sig_call'.arg.from = from
C22_AnswerToSentOfferCounts ==
    [][/\ \A t \in Targets :
              (AnswerArrives(t) /\ SentOfferPending(pending_exchanges, t))
                => /\ metrics'.successful_exchanges =
                          metrics.successful_exchanges + 1
                   /\ pending_exchanges'[t] = NoExchange
       /\ (~\E t \in Targets :
               AnswerArrives(t) /\ SentOfferPending(pending_exchanges, t))
            => ExchangeMetrics(metrics') = ExchangeMetrics(metrics)]_vars

(***************************************************************************)
(* C23: for each successful connect(), Connected precedes every other      *)
(* event of the connection, nothing of the connection follows its          *)
(* Disconnected, and once the channel is closed (transport error, remote   *)
(* close or disconnect()) its Disconnected is eventually in the stream.    *)
(***************************************************************************)
EventsOfConn(c) ==
    {i \in 1..Len(sig_events) : sig_events[i].conn = c}
ConnEventsOrdered(c) ==
    \A i \in EventsOfConn(c) :
        /\ sig_events[i].kind # "Connected"
             => \E j \in EventsOfConn(c) :
                    j < i /\ sig_events[j].kind = "Connected"
        /\ sig_events[i].kind = "Disconnected"
             => \A j \in EventsOfConn(c) : j <= i
DisconnectedSeen(c) ==
    \E i \in EventsOfConn(c) : sig_events[i].kind = "Disconnected"
C23_ConnectedThenOneDisconnected ==
    \A c \in ConnIds :
        /\ [](ConnEventsOrdered(c))
        /\ [](sig_conns[c].closed => <>DisconnectedSeen(c))

(***************************************************************************)
(* C24: close_connection is idempotent.  Closing an id the engine does not *)
(* store (never handed out, or already closed) succeeds and changes        *)
(* nothing; after any close_connection(id) the state of id is none and the *)
(* state of every other connection is what it was.                         *)
(***************************************************************************)
C24_CloseIdempotent ==
    [][rtc_call'.op = "close_connection"
         => LET id == rtc_call'.id
            IN  /\ ConnectionStateIn(connections', id) = NoConnection
                /\ \A other \in RtcIds \ {id} :
                       ConnectionStateIn(connections', other) =
                           ConnectionStateIn(connections, other)
                /\ ConnectionStateIn(connections, id) = NoConnection
                     => rtc_call'.ok /\ UNCHANGED connections]_vars
\* A second close of a connection that was created and closed before, with
\* another connection still stored.
C24_Witness ==
    /\ rtc_call.op = "close_connection"
    /\ ~rtc_call.found
    /\ rtc_call.id < next_connection_id
    /\ \E other \in RtcIds : connections[other] = "Connected"

(***************************************************************************)
(* C25: whenever IPv4 is available, establish_connection returns Ok with a *)
(* connection kind other than Unknown, whatever the preferred protocol,    *)
(* the IPv6 availability and the STUN and TURN server lists are.           *)
(***************************************************************************)
C25_Ipv4Connects ==
    (net_call.op = "establish_connection" /\ ipv4_available)
        => (net_call.result.ok /\ net_call.result.kind # "Unknown")
\* A connection established with IPv4 preferred, IPv6 available and no TURN
\* server configured.
C25_Witness ==
    /\ net_call.op = "establish_connection"
    /\ ipv4_available /\ ipv6_available
    /\ preferred_protocol = "IPv4"
    /\ turn_servers = 0
    /\ net_call.result = OkKind("Direct")

(***************************************************************************)
(* C26: while the sampler runs the stats history never holds more than 60  *)
(* samples, and it holds the most recently produced samples in the order   *)
(* they were produced: the sample evicted is the oldest.                   *)
(***************************************************************************)
C26_HistoryIsLastSixty ==
    LET held == Len(stats_history)
    IN  /\ held <= 60
        /\ held = (IF produced < 60 THEN produced ELSE 60)
        /\ \A i \in 1..held :
               stats_history[i].number = produced - held + i
\* Two samples have been evicted and the sampler is still running.
C26_Witness ==
    /\ produced = 62
    /\ Len(stats_history) = 60
    /\ stats_history[1].number = 3
    /\ is_monitoring

(***************************************************************************)
(* C27: in every sampler iteration QualityChanged(q) is sent exactly when  *)
(* the quality q of the sample differs from the quality of the loop's      *)
(* previous sample (Unknown before the first), QualityWarning exactly when *)
(* that change is to Poor, and StatsUpdated once for the sample.           *)
(***************************************************************************)
EmittedKinds(kind) ==
    {i \in 1..Len(net_emitted) : net_emitted[i].kind = kind}
PreviousQuality(k) ==
    IF samplers[k].previous = <<>> THEN "Unknown"
    ELSE calculate_quality(samplers[k].previous[1])
IterationEvents(k) ==
    LET quality == calculate_quality(samplers[k].stats)
        changed == quality # PreviousQuality(k)
    IN  /\ Cardinality(EmittedKinds("QualityChanged")') =
               (IF changed THEN 1 ELSE 0)
        /\ \A i \in EmittedKinds("QualityChanged")' :
               net_emitted'[i].quality = quality
        /\ Cardinality(EmittedKinds("QualityWarning")') =
               (IF changed /\ quality = "Poor" THEN 1 ELSE 0)
        /\ Cardinality(EmittedKinds("StatsUpdated")') = 1
        /\ \A i \in EmittedKinds("StatsUpdated")' :
               net_emitted'[i].stats = samplers[k].stats
C27_EventsFollowQualityChanges ==
    [][net_call'.op = "sampler_emit" => IterationEvents(net_call'.arg)]_vars
\* An iteration whose sample is Poor after a sample that was not, and one
\* whose sample has the quality of the one before.
C27_Witness ==
    /\ net_call.op = "sampler_emit"
    /\ Len(net_emitted) = 1
    /\ \E k \in SamplerIds :
           /\ samplers[k].last_quality = "Poor"
           /\ samplers[k].previous = <<Stats(250, 60)>>
    /\ produced >= 3

(***************************************************************************)
(* C28: once the running flag of a background loop is false and is not     *)
(* set again, the loop ends: no iteration begins while the flag is false,  *)
(* so the loop finishes at most the iteration in progress, and eventually  *)
(* every sampler and every capture loop has terminated.                    *)
(***************************************************************************)
SamplersEnded == \A k \in SamplerIds : samplers[k].pc \in {"idle", "done"}
CaptureLoopsEnded == \A k \in CaptureLoopIds : capture_loops[k] \in {"idle", "done"}
C28_StoppedLoopsEnd ==
    /\ [][/\ iterations' # iterations => is_monitoring
          /\ frames_begun' # frames_begun => is_capturing]_vars
    /\ (<>[](~is_monitoring)) => <>[]SamplersEnded
    /\ (<>[](~is_capturing)) => <>[]CaptureLoopsEnded
\* Both loops have run, were stopped, and have ended.
C28_Witness ==
    /\ ~is_monitoring /\ produced > 0
    /\ \E k \in SamplerIds : samplers[k].pc = "done"
    /\ ~is_capturing /\ frame_counter > 0
    /\ \E k \in CaptureLoopIds : capture_loops[k] = "done"

(***************************************************************************)
(* C29: calculate_quality(rtt, loss) is Excellent iff rtt < 50 and         *)
(* loss < 1.0; otherwise Good iff rtt < 100 and loss < 3.0; otherwise Fair *)
(* iff rtt < 200 and loss < 5.0; otherwise Poor.  A boundary value (50,    *)
(* 100, 200 ms; 1, 3, 5 %) falls into the worse bucket.                    *)
(***************************************************************************)
Buckets == <<"Excellent", "Good", "Fair", "Poor">>
RttBucket(rtt) ==
    IF rtt < 50 THEN 1 ELSE IF rtt < 100 THEN 2 ELSE IF rtt < 200 THEN 3 ELSE 4
LossBucket(loss) ==
    IF loss < 10 THEN 1 ELSE IF loss < 30 THEN 2 ELSE IF loss < 50 THEN 3 ELSE 4
Worse(a, b) == IF a < b THEN b ELSE a
C29_QualityRule ==
    net_call.op = "calculate_quality"
        => /\ quality_out =
                  Buckets[Worse(RttBucket(quality_in.rtt),
                                LossBucket(quality_in.packet_loss))]
           /\ quality_in.rtt = 50 => quality_out # "Excellent"
           /\ quality_in.packet_loss = 10 => quality_out # "Excellent"
           /\ quality_in.rtt = 100 => quality_out \in {"Fair", "Poor"}
           /\ quality_in.packet_loss = 30 => quality_out \in {"Fair", "Poor"}
           /\ quality_in.rtt = 200 => quality_out = "Poor"
           /\ quality_in.packet_loss = 50 => quality_out = "Poor"
\* The rule applied at the boundary between Excellent and Good.
C29_Witness ==
    /\ net_call.op = "calculate_quality"
    /\ quality_in = Stats(50, 0)
    /\ quality_out = "Good"

(***************************************************************************)
(* C30: after adapt_to_network_conditions the capture bitrate lies in      *)
(* [min_bitrate, max_bitrate] and the capture frame rate in                *)
(* [min_frame_rate, max_frame_rate] of the configuration in force.         *)
(***************************************************************************)
WithinConfig(options, cfg) ==
    /\ cfg.min_bitrate <= options.bitrate
    /\ options.bitrate <= cfg.max_bitrate
    /\ cfg.min_frame_rate <= options.frame_rate
    /\ options.frame_rate <= cfg.max_frame_rate
C30_AdaptedWithinConfig ==
    [][cap_call'.op = "adapt_to_network_conditions"
         => WithinConfig(capture_options', adaptive_config')]_vars

(***************************************************************************)
(* C31: after adapt_to_network_conditions with available bandwidth bw the  *)
(* capture bitrate does not exceed max(0.8 x bw, min_bitrate).             *)
(***************************************************************************)
C31_BitrateWithinBandwidth ==
    [][cap_call'.op = "adapt_to_network_conditions"
         => LET allowed == (cap_call'.arg.available_bandwidth * 8) \div 10
            IN  capture_options'.bitrate
                    <= (IF allowed > adaptive_config'.min_bitrate
                        THEN allowed ELSE adaptive_config'.min_bitrate)]_vars

(***************************************************************************)
(* C32: whatever the options were before, the options a quality preset     *)
(* leaves have a frame rate in [15, 60], and a resolution and a bitrate    *)
(* not lower than those any lower-ranked preset would have left            *)
(* (Low < Balanced < High < Ultra).                                        *)
(***************************************************************************)
PresetRank == [preset \in QualityPresets |->
                  CASE preset = "Low" -> 1 [] preset = "Balanced" -> 2
                    [] preset = "High" -> 3 [] preset = "Ultra" -> 4]
NotLower(a, b) ==
    a.width >= b.width /\ a.height >= b.height /\ a.bitrate >= b.bitrate
C32_PresetsMonotone ==
    [][cap_call'.op = "apply_quality_preset"
         => /\ capture_options'.frame_rate >= 15
            /\ capture_options'.frame_rate <= 60
            /\ \A lower \in QualityPresets :
                   PresetRank[lower] < PresetRank[cap_call'.arg]
                     => NotLower(capture_options',
                                 PresetOptions(capture_options, lower))]_vars

(***************************************************************************)
(* C33: the frame-buffer manager never holds more than max_buffers frames; *)
(* a push onto a full queue evicts exactly the oldest frame and adds one   *)
(* to the dropped counter, and pop_frame returns the frames that remain in *)
(* the order they were pushed (it takes the front, pushes go to the back). *)
(***************************************************************************)
C33_StepsAreFifo ==
    /\ perf_call'.op = "push_frame" =>
          IF Len(frame_buffers) = max_buffers
          THEN /\ frame_buffers' = Append(Tail(frame_buffers), perf_call'.ret[1])
               /\ dropped_frames' = dropped_frames + 1
          ELSE /\ frame_buffers' = Append(frame_buffers, perf_call'.ret[1])
               /\ dropped_frames' = dropped_frames
    /\ perf_call'.op = "pop_frame" /\ frame_buffers # <<>> =>
          /\ perf_call'.ret = <<Head(frame_buffers)>>
          /\ frame_buffers' = Tail(frame_buffers)
    /\ Len(frame_buffers') <= max_buffers
C34_Discarded(i) ==
    /\ perf_call'.ret = <<event_queue[i]>>
    /\ event_queue' = Append(RemoveAt(event_queue, i), event_queue'[Len(event_queue')])
    /\ \A j \in DOMAIN event_queue :
           event_queue[j].priority <= event_queue[i].priority
C34_StepDropsLowest ==
    /\ perf_call'.op = "queue_event" /\ now' = now
          /\ Len(event_queue) = max_queue_size =>
          \E i \in DOMAIN event_queue : C34_Discarded(i)
    /\ Len(event_queue') <= max_queue_size
MouseMoves(batch) == {i \in DOMAIN batch : batch[i].event_type = "MouseMove"}
C35_OneLatestMouseMove ==
    [][perf_call'.op = "get_batch" /\ now' = now /\ event_queue' = <<>>
         => LET batch == perf_call'.ret
            IN  /\ Cardinality(MouseMoves(batch)) <= 1
                /\ \A i \in MouseMoves(batch) : \A j \in MouseMoves(event_queue) :
                       event_queue[j].timestamp <= batch[i].timestamp]_vars

(***************************************************************************)
(* C36: no execution of concurrent session-key operations deadlocks: a     *)
(* task that holds one of the session-keys, replay-state and old-keys      *)
(* locks while it acquires another acquires them in the order              *)
(* session-keys, replay-state, old-keys, and whenever tasks are in the     *)
(* middle of an operation one of them can take its next lock.              *)
(***************************************************************************)
C36_Rank(lock) ==
    CASE lock = "session_keys" -> 1
      [] lock = "replay_detection" -> 2
      [] lock = "old_session_keys" -> 3
C36_Busy == {p \in Tasks : sec_pc[p] # "idle"}
C36_NoDeadlock ==
    /\ \A p \in C36_Busy : \A held \in Holds(p) :
           C36_Rank(held) < C36_Rank(Wants(p))
    /\ C36_Busy # {} => \E p \in C36_Busy : LockFree(p, Wants(p))
C36_Witness ==
    \E p, q \in Tasks :
        /\ sec_pc[p] = "rotate_old"
        /\ sec_pc[q] = "remove_old"

(***************************************************************************)
(* C39: replay state and old keys exist for a session only while it has a  *)
(* current key: when remove_session_key(S) has completed, S does not have  *)
(* replay state or old keys without a current key, whatever                *)
(* generate_session_key, rotate_session_key and detect_replay_attack calls *)
(* ran beside it.                                                          *)
(***************************************************************************)
C39_RemoveLeavesNothing ==
    \A s \in KeySessionIds :
        sec_call.op = "remove" /\ sec_call.sid = s /\ session_keys[s] = NoKey
            => /\ replay_detection[s] = NoState
               /\ old_session_keys[s] = <<>>

(***************************************************************************)
(* C40: certificate revocation is permanent: once revoke_certificate(f)    *)
(* has returned, f stays in the revoked set and every answer               *)
(* is_certificate_trusted(f) gives is false, whatever trust_certificate    *)
(* and generate_device_certificate calls follow.                           *)
(***************************************************************************)
C40_Revoked == revoked_certificates \ cert_pc.revoking
C40_RevocationPermanent ==
    [][\A f \in C40_Revoked :
          /\ f \in revoked_certificates'
          /\ cert_call'.op = "is_certificate_trusted" /\ cert_call'.arg = f
                => cert_call'.ret = FALSE]_vars
C40_Witness ==
    \E f \in C40_Revoked :
        /\ f \in trusted_certificates
        /\ device_certificate = f
        /\ cert_call = CertCall("is_certificate_trusted", f, FALSE)

(***************************************************************************)
(* C37: at most one network sampler task is running at any time, under any *)
(* interleaving of start_monitoring and stop_monitoring calls, two         *)
(* concurrent start_monitoring calls and a stop_monitoring followed by a   *)
(* start_monitoring within one sampling tick included.                     *)
(***************************************************************************)
C37_Running == {k \in MonitorIds : samplers[k].pc \notin {"idle", "done"}}
C37_OneSampler == Cardinality(C37_Running) <= 1

(***************************************************************************)
(* C38: while the channel opened by the most recent successful connect()   *)
(* is open and disconnect() has not been called since, is_connected() is   *)
(* true and no Disconnected event is emitted, also when the receive task   *)
(* of an earlier, already closed connection ends during that time.         *)
(***************************************************************************)
C38_CurrentOpen ==
    /\ ws_sender # NoSender
    /\ ws_sender = next_conn - 1
    /\ sig_conns[ws_sender].reader = "running"
    /\ ~sig_conns[ws_sender].closed
C38_NoDisconnected ==
    \A i \in DOMAIN sig_events' :
        i > Len(sig_events) => sig_events'[i].kind # "Disconnected"
C38_CurrentConnectionStaysUp ==
    /\ [](C38_CurrentOpen => sig_connected)
    /\ [][C38_CurrentOpen /\ C38_CurrentOpen' => C38_NoDisconnected]_vars

=============================================================================
